---- MODULE Spec2Model ----
(***************************************************************************)
(* A model of the static web page generator (package webpage).             *)
(*                                                                         *)
(* Python values that may be None are modelled as tagged records:          *)
(*   None            [t |-> "None"]                                        *)
(*   a str           [t |-> "str",  v |-> <<pieces>>]                      *)
(*   an int          [t |-> "int",  v |-> n]                               *)
(*   a list          [t |-> "list", v |-> <<values>>]                      *)
(*   a dict          [t |-> "dict", v |-> [key |-> value]]                 *)
(* A text the program produces is the sequence of the pieces it was put    *)
(* together from (literals of the format strings and formatted fields);    *)
(* Text(s) is the string itself.  An ISO date string on input is the       *)
(* sequence of its characters.                                             *)
(***************************************************************************)
EXTENDS Integers, Sequences, FiniteSets, TLC

VARIABLES
    time_span,      \* the TimeSpan object the last construction returned, or None
    ts_raised,      \* the exception the last TimeSpan construction raised ("" if none)
    ts_args,        \* the arguments of the last TimeSpan construction
    ts_text,        \* what ascii(), html() and latex() returned for time_span
    ts_single,      \* what is_single_day() returned for time_span
    contribution,   \* the Contribution object constructed, or None
    co_text,        \* what ascii(), html() and latex() returned for contribution
    list_obj,       \* the WorkList or ConferenceList object constructed, or None
    list_text,      \* the last method called on list_obj and what it returned
    w_obj,          \* the Work object the last construction returned, or None
    w_json,         \* the record the Work was constructed from, or None
    w_raised,       \* the exception the Work construction raised ("" if none)
    w_log,          \* the warnings logged for w_obj
    w_text,         \* what ascii(), html() and latex() returned for w_obj
    w_authors,      \* the last _author_string(cap) call on w_obj and its result
    w_nav,          \* the last _navigate(*keys, default) call on w_obj and its result
    cache,          \* the files of the local folder: file name -> content
    last_call       \* the last ORCID._load or ORCID() call and what it did

ts_vars == <<time_span, ts_raised, ts_args, ts_text, ts_single>>
co_vars == <<contribution, co_text>>
li_vars == <<list_obj, list_text>>
wk_vars == <<w_obj, w_json, w_raised, w_log, w_text, w_authors, w_nav>>
or_vars == <<cache, last_call>>

vars == <<ts_vars, co_vars, li_vars, wk_vars, or_vars>>

-----------------------------------------------------------------------------
(* Python values *)

None == [t |-> "None"]
PyStr(s) == [t |-> "str", v |-> s]
PyInt(n) == [t |-> "int", v |-> n]
PyList(s) == [t |-> "list", v |-> s]
PyDict(f) == [t |-> "dict", v |-> f]

Dialects == {"ascii", "html", "latex"}

RECURSIVE Text(_)
\* The string a sequence of pieces spells.
Text(s) == IF s = <<>> THEN "" ELSE Head(s) \o Text(Tail(s))

RECURSIVE Count(_, _)
\* The number of occurrences of piece p in s.
Count(s, p) == IF s = <<>> THEN 0
               ELSE (IF Head(s) = p THEN 1 ELSE 0) + Count(Tail(s), p)

-----------------------------------------------------------------------------
(* datetime: strptime with '%Y-%m-%d', date comparison, strftime *)

DigitChars == <<"0", "1", "2", "3", "4", "5", "6", "7", "8", "9">>

IsDigit(c) == \E i \in 1..10 : DigitChars[i] = c

DigitVal(c) == (CHOOSE i \in 1..10 : DigitChars[i] = c) - 1

MonthNames == <<"January", "February", "March", "April", "May", "June", "July",
                "August", "September", "October", "November", "December">>

IsLeap(y) == (y % 4 = 0 /\ y % 100 # 0) \/ y % 400 = 0

DaysInMonth(y, m) ==
    IF m = 2 THEN (IF IsLeap(y) THEN 29 ELSE 28)
    ELSE IF m \in {4, 6, 9, 11} THEN 30 ELSE 31

Date(y, m, d) == [year |-> y, month |-> m, day |-> d]

NoDate == Date(0, 0, 0)

\* datetime.date ordering: lexicographic on (year, month, day).
DateLt(a, b) ==
    \/ a.year < b.year
    \/ a.year = b.year /\ a.month < b.month
    \/ a.year = b.year /\ a.month = b.month /\ a.day < b.day

DateGe(a, b) == ~DateLt(a, b)

\* Does the string match 'YYYY-MM-DD' and name a day of the calendar?
IsoWellFormed(s) ==
    /\ Len(s) = 10
    /\ \A i \in {1, 2, 3, 4, 6, 7, 9, 10} : IsDigit(s[i])
    /\ s[5] = "-" /\ s[8] = "-"

IsoYear(s) == 1000 * DigitVal(s[1]) + 100 * DigitVal(s[2])
              + 10 * DigitVal(s[3]) + DigitVal(s[4])
IsoMonth(s) == 10 * DigitVal(s[6]) + DigitVal(s[7])
IsoDay(s) == 10 * DigitVal(s[9]) + DigitVal(s[10])

IsoValid(s) ==
    /\ IsoWellFormed(s)
    /\ IsoYear(s) >= 1
    /\ IsoMonth(s) \in 1..12
    /\ IsoDay(s) \in 1..DaysInMonth(IsoYear(s), IsoMonth(s))

\* TimeSpan.str_to_date: ValueError (NoDate here) unless the string is a date.
str_to_date(s) ==
    IF IsoValid(s) THEN Date(IsoYear(s), IsoMonth(s), IsoDay(s)) ELSE NoDate

\* One strftime directive or literal of a format.
Strftime1(date, f) ==
    CASE f = "%d" -> DigitChars[(date.day \div 10) + 1] \o DigitChars[(date.day % 10) + 1]
      [] f = "%B" -> MonthNames[date.month]
      [] f = "%Y" -> ToString(date.year)
      [] OTHER -> f

strftime(date, fmt) == [i \in 1..Len(fmt) |-> Strftime1(date, fmt[i])]

\* TimeSpan.date_to_str
date_to_str(date, month, year) ==
    LET fmt0 == <<"%d">>
        fmt1 == IF month = TRUE THEN fmt0 \o <<" ", "%B">> ELSE fmt0
        fmt2 == IF year = TRUE THEN fmt1 \o <<", ", "%Y">> ELSE fmt1
    IN  strftime(date, fmt2)

-----------------------------------------------------------------------------
(* Operations of str, on sequences of characters or pieces *)

Min(a, b) == IF a < b THEN a ELSE b

\* Does k occur in s at position i?
OccursAt(s, k, i) ==
    /\ i + Len(k) - 1 <= Len(s)
    /\ SubSeq(s, i, i + Len(k) - 1) = k

\* k in s
Contains(s, k) == \E i \in 1..Len(s) : OccursAt(s, k, i)

RECURSIVE LastIndex(_, _, _)
\* The last position at or before i where k occurs in s (0 if none).
LastIndex(s, k, i) ==
    IF i < 1 THEN 0 ELSE IF OccursAt(s, k, i) THEN i ELSE LastIndex(s, k, i - 1)

\* s.split(k)[-1], for a k that does not overlap itself: what follows the
\* last occurrence of k (all of s when there is none).
AfterLast(s, k) ==
    LET i == LastIndex(s, k, Len(s))
    IN  IF i = 0 THEN s ELSE SubSeq(s, i + Len(k), Len(s))

RECURSIVE FirstIndex(_, _, _)
\* The first position at or after i where s holds c (0 if none).
FirstIndex(s, c, i) ==
    IF i > Len(s) THEN 0 ELSE IF s[i] = c THEN i ELSE FirstIndex(s, c, i + 1)

\* s.split(c)[0] for one character c: what precedes its first occurrence.
BeforeFirst(s, c) ==
    LET i == FirstIndex(s, c, 1)
    IN  IF i = 0 THEN s ELSE SubSeq(s, 1, i - 1)

\* s.replace(c, '') for one character or piece c.
Remove(s, c) == SelectSeq(s, LAMBDA x : x # c)

\* s.replace(c, d) for one character or piece c.
Replace1(s, c, d) == [i \in 1..Len(s) |-> IF s[i] = c THEN d ELSE s[i]]

RECURSIVE ReplacePair(_, _, _)
\* s.replace(c + c, d) for one character c (leftmost pairs first).
ReplacePair(s, c, d) ==
    IF Len(s) < 2 THEN s
    ELSE IF s[1] = c /\ s[2] = c
    THEN <<d>> \o ReplacePair(SubSeq(s, 3, Len(s)), c, d)
    ELSE <<s[1]>> \o ReplacePair(Tail(s), c, d)

RECURSIVE LStrip(_, _)
LStrip(s, chars) ==
    IF s # <<>> /\ Head(s) \in chars THEN LStrip(Tail(s), chars) ELSE s

RECURSIVE RStrip(_, _)
RStrip(s, chars) ==
    IF s # <<>> /\ s[Len(s)] \in chars
    THEN RStrip(SubSeq(s, 1, Len(s) - 1), chars) ELSE s

\* s.strip(chars)
Strip(s, chars) == RStrip(LStrip(s, chars), chars)

RECURSIVE Join(_, _)
\* sep.join(parts), parts a sequence of texts
Join(sep, parts) ==
    IF parts = <<>> THEN <<>>
    ELSE IF Len(parts) = 1 THEN parts[1]
    ELSE parts[1] \o sep \o Join(sep, Tail(parts))

UpperChars == <<"A", "B", "C", "D", "E", "F", "G", "H", "I", "J", "K", "L", "M",
                "N", "O", "P", "Q", "R", "S", "T", "U", "V", "W", "X", "Y", "Z">>
LowerChars == <<"a", "b", "c", "d", "e", "f", "g", "h", "i", "j", "k", "l", "m",
                "n", "o", "p", "q", "r", "s", "t", "u", "v", "w", "x", "y", "z">>

\* s.lower()
Lower(s) ==
    [i \in 1..Len(s) |->
        IF \E j \in 1..26 : UpperChars[j] = s[i]
        THEN LowerChars[CHOOSE j \in 1..26 : UpperChars[j] = s[i]]
        ELSE s[i]]

RECURSIVE ParseDigits(_, _)
ParseDigits(s, acc) ==
    IF s = <<>> THEN acc ELSE ParseDigits(Tail(s), 10 * acc + DigitVal(Head(s)))

\* int(x): the exception raised ("" if none) and the value.
int(x) ==
    IF x.t = "int" THEN [exc |-> "", v |-> x.v]
    ELSE IF x.t = "str"
    THEN IF x.v # <<>> /\ \A i \in 1..Len(x.v) : IsDigit(x.v[i])
         THEN [exc |-> "", v |-> ParseDigits(x.v, 0)]
         ELSE [exc |-> "ValueError", v |-> 0]
    ELSE [exc |-> "TypeError", v |-> 0]

\* str(x), '{}'.format(x) of a value
Fmt(x) ==
    CASE x.t = "str" -> x.v
      [] x.t = "int" -> <<ToString(x.v)>>
      [] x.t = "None" -> <<"None">>
      [] OTHER -> <<"<object>">>

\* item[key] for a str key: the exception raised ("" if none) and the value.
Subscript(item, key) ==
    IF item.t = "dict"
    THEN IF key \in DOMAIN item.v
         THEN [exc |-> "", v |-> item.v[key]]
         ELSE [exc |-> "KeyError", v |-> None]
    ELSE [exc |-> "TypeError", v |-> None]

RECURSIVE SubscriptChain(_, _)
\* item[k1][k2]..., unguarded
SubscriptChain(item, keys) ==
    IF keys = <<>> THEN [exc |-> "", v |-> item]
    ELSE LET r == Subscript(item, Head(keys))
         IN  IF r.exc # "" THEN r ELSE SubscriptChain(r.v, Tail(keys))

-----------------------------------------------------------------------------
(* classes LaTeX and HTML *)

RECURSIVE LaTeX_args(_)
LaTeX_args(args) ==
    IF args = <<>> THEN <<>>
    ELSE <<"{">> \o Head(args) \o <<"}">> \o LaTeX_args(Tail(args))

\* LaTeX.command(name, *args)
LaTeX_command(name, args) == <<"\\", name>> \o LaTeX_args(args)

LaTeX_emph(text) == LaTeX_command("emph", <<text>>)

\* LaTeX.hyperlink(text, url), url a str or None
LaTeX_hyperlink(text, url) ==
    IF url = None THEN text ELSE LaTeX_command("href", <<url.v, text>>)

INDENT_STRING == "  "

RECURSIVE Times(_, _)
\* string * n
Times(str, n) == IF n <= 0 THEN "" ELSE str \o Times(str, n - 1)

RECURSIVE IndentLines(_, _)
\* text.replace('\n', '\n' + indent)
IndentLines(text, indent) ==
    IF text = <<>> THEN <<>>
    ELSE IF Head(text) = "\n"
    THEN <<"\n", indent>> \o IndentLines(Tail(text), indent)
    ELSE <<Head(text)>> \o IndentLines(Tail(text), indent)

\* HTML.indent(text, level)
HTML_indent(text, level) ==
    IF level = 0 THEN text
    ELSE LET indent == Times(INDENT_STRING, level)
         IN  <<indent>> \o IndentLines(text, indent)

\* HTML.tag_open(tag, indent, class_, **attributes): attributes is a sequence
\* of <<key, value>> pairs, class_ a str or None.
HTML_tag_open(tag, indent, class_, attributes) ==
    LET attrs == IF class_ # None THEN Append(attributes, <<"class", class_.v>>)
                 ELSE attributes
        attr_list == [i \in 1..Len(attrs) |->
                         <<" ", attrs[i][1], "=\"">> \o attrs[i][2] \o <<"\"">>]
        attr_text == Join(<<",">>, attr_list)
    IN  HTML_indent(<<"<", tag>> \o attr_text \o <<">">>, indent)

\* HTML.tag_close(tag, indent)
HTML_tag_close(tag, indent) == HTML_indent(<<"</", tag, ">">>, indent)

\* HTML.tag(text, tag, indent, class_, **attributes)
HTML_tag(text, tag, indent, class_, attributes) ==
    HTML_tag_open(tag, indent, class_, attributes) \o text \o HTML_tag_close(tag, 0)

HTML_heading3(text) == HTML_tag(text, "h3", 0, None, <<>>)

HTML_break == <<"<br>">>

HTML_emph(text) == HTML_tag(text, "em", 0, None, <<>>)

HTML_list_item(text, indent, class_) == HTML_tag(text, "li", indent, class_, <<>>)

\* HTML.list(items, indent), with the default ul_class and li_class
HTML_list(items, indent) ==
    Join(<<"\n">>,
         <<HTML_tag_open("ul", indent, None, <<>>)>>
         \o [i \in 1..Len(items) |-> HTML_list_item(items[i], indent + 1, None)]
         \o <<HTML_tag_close("ul", indent)>>)

\* HTML.hyperlink(text, url), url a str or None
HTML_hyperlink(text, url) ==
    IF url = None THEN text ELSE HTML_tag(text, "a", 0, None, <<<<"href", url.v>>>>)

-----------------------------------------------------------------------------
(* class Work *)

BIBTEX_KEYS == <<"volume", "number", "pages">>

\* The characters of the three keys.
KeyChars(key) ==
    CASE key = "volume" -> <<"v", "o", "l", "u", "m", "e">>
      [] key = "number" -> <<"n", "u", "m", "b", "e", "r">>
      [] key = "pages" -> <<"p", "a", "g", "e", "s">>

\* A journal title is a sequence of pieces, each one of these patterns or a
\* text that holds none of them.
PROCEEDINGS_PATTERNS ==
    {"Proceedings", "Conference", "Space Telescopes and Instrumentation",
     "Advanced Technology and Particle Physics", "Calorimetry in Particle Physics",
     "Frontiers of Fundamental Physics",
     "European Space Agency, (Special Publication) ESA SP"}

\* A line of the log.
Warning(what, key, keys, info) == [what |-> what, key |-> key, keys |-> keys, info |-> info]

Returned(value, warnings) == [raised |-> "", value |-> value, warnings |-> warnings]

Raised(exc, warnings) == [raised |-> exc, value |-> None, warnings |-> warnings]

\* A key of a chain: a str or an int.
StrKey(name) == [t |-> "str", k |-> name]

IntKey(i) == [t |-> "int", k |-> i]

\* item[i] for an int i: the exception raised ("" if none) and the value.  A
\* str indexed this way is one written character by character.
Index(item, i) ==
    IF item.t \in {"list", "str"}
    THEN IF i >= 0 /\ i < Len(item.v)
         THEN [exc |-> "", v |-> IF item.t = "str" THEN PyStr(<<item.v[i + 1]>>)
                                 ELSE item.v[i + 1]]
         ELSE IF i < 0 /\ -i <= Len(item.v)
         THEN [exc |-> "", v |-> IF item.t = "str"
                                 THEN PyStr(<<item.v[Len(item.v) + i + 1]>>)
                                 ELSE item.v[Len(item.v) + i + 1]]
         ELSE [exc |-> "IndexError", v |-> None]
    ELSE IF item.t = "dict" THEN [exc |-> "KeyError", v |-> None]
    ELSE [exc |-> "TypeError", v |-> None]

\* item[key] for a key of a chain
GetItem(item, key) ==
    IF key.t = "str" THEN Subscript(item, key.k) ELSE Index(item, key.k)

RECURSIVE navigate_from_default_for_null(_, _, _, _, _, _)
navigate_from_default_for_null(item, keys, i, default, quiet, info) ==
    IF i > Len(keys) THEN Returned(IF item = None THEN default ELSE item, <<>>)
    ELSE LET r == GetItem(item, keys[i])
         IN  IF r.exc = ""
             THEN navigate_from_default_for_null(r.v, keys, i + 1, default, quiet, info)
             ELSE IF r.exc = "TypeError"
             THEN IF quiet THEN Returned(default, <<>>)
                  ELSE Returned(default, <<Warning("navigate", keys[i].k, keys, info)>>)
             ELSE Raised(r.exc, <<>>)

RECURSIVE navigate_from(_, _, _, _, _, _)
\* The loop of Work._navigate from the i-th key on.
navigate_from(item, keys, i, default, quiet, info) ==
    IF i > Len(keys) THEN Returned(item, <<>>)
    ELSE LET r == GetItem(item, keys[i])
         IN  IF r.exc = "" THEN navigate_from(r.v, keys, i + 1, default, quiet, info)
             ELSE IF r.exc = "TypeError"
             THEN IF quiet THEN Returned(default, <<>>)
                  ELSE Returned(default, <<Warning("navigate", keys[i].k, keys, info)>>)
             ELSE Raised(r.exc, <<>>)

\* Work._navigate(*keys, default, quiet) for a chain of str and int keys;
\* self holds the dict (json) and info.
Work_navigate_keys(self, keys, default, quiet) ==
    navigate_from(self.json, keys, 1, default, quiet, self.info)

\* Work._navigate(*keys, default, quiet) for str keys
Work_navigate(self, keys, default, quiet) ==
    Work_navigate_keys(self, [i \in 1..Len(keys) |-> StrKey(keys[i])], default, quiet)

\* Work._date
Work_date(self) ==
    LET year == Work_navigate(self, <<"publication-date", "year", "value">>, None, FALSE)
        month == Work_navigate(self, <<"publication-date", "month", "value">>, PyInt(1), TRUE)
        day == Work_navigate(self, <<"publication-date", "day", "value">>, PyInt(1), TRUE)
        y == int(year.value)
        m == int(month.value)
        d == int(day.value)
    IN  IF year.raised # "" THEN Raised(year.raised, <<>>)
        ELSE IF month.raised # "" THEN Raised(month.raised, year.warnings)
        ELSE IF day.raised # "" THEN Raised(day.raised, year.warnings)
        ELSE IF y.exc # "" THEN Raised(y.exc, year.warnings)
        ELSE IF m.exc # "" THEN Raised(m.exc, year.warnings)
        ELSE IF d.exc # "" THEN Raised(d.exc, year.warnings)
        ELSE IF ~(y.v \in 1..9999 /\ m.v \in 1..12 /\ d.v \in 1..DaysInMonth(y.v, m.v))
        THEN Raised("ValueError", year.warnings)
        ELSE Returned(Date(y.v, m.v, d.v), year.warnings)

NoIds == [k \in {} |-> None]

RECURSIVE external_ids_loop(_, _)
\* The loop of Work._external_ids over the items left, ids being filled.  A
\* key of ids is the text of the id type.
external_ids_loop(items, ids) ==
    IF items = <<>> THEN [exc |-> "", v |-> ids]
    ELSE LET value == Subscript(Head(items), "external-id-value")
             type == Subscript(Head(items), "external-id-type")
         IN  IF value.exc # "" THEN [exc |-> value.exc, v |-> ids]
             ELSE IF type.exc # "" THEN [exc |-> type.exc, v |-> ids]
             ELSE IF type.v.t \in {"list", "dict"} THEN [exc |-> "TypeError", v |-> ids]
             ELSE external_ids_loop(Tail(items),
                                    (Text(Fmt(type.v)) :> value.v) @@ ids)

\* Is the value an iterable with nothing in it?
IsEmptyIterable(x) ==
    \/ x.t \in {"list", "str"} /\ x.v = <<>>
    \/ x.t = "dict" /\ DOMAIN x.v = {}

\* Work._external_ids
Work_external_ids(self) ==
    LET items == Work_navigate(self, <<"external-ids", "external-id">>, None, FALSE)
        ids == external_ids_loop(items.value.v, NoIds)
    IN  IF items.raised # "" THEN Raised(items.raised, <<>>)
        ELSE IF IsEmptyIterable(items.value) THEN Returned(NoIds, items.warnings)
        ELSE IF items.value.t # "list" THEN Raised("TypeError", items.warnings)
        ELSE IF ids.exc # "" THEN Raised(ids.exc, items.warnings)
        ELSE Returned(ids.v, items.warnings)

\* Work._format_credit_name
format_credit_name(contributor) == SubscriptChain(contributor, <<"credit-name", "value">>)

\* Work._author_string with ' et al.' added from max_num_authors names on.
Work_author_string_suffix_at_cap(self, max_num_authors) ==
    LET nav == Work_navigate(self, <<"contributors", "contributor">>, None, FALSE)
        contributors == nav.value
        sized == contributors.t \in {"list", "str", "dict"}
        num_authors == IF contributors.t \in {"list", "str"} THEN Len(contributors.v)
                       ELSE IF contributors.t = "dict"
                       THEN Cardinality(DOMAIN contributors.v) ELSE 0
        warnings1 == IF sized THEN nav.warnings
                     ELSE Append(nav.warnings, Warning("len", "", <<>>, <<>>))
        sliced == SubSeq(contributors.v, 1, Min(max_num_authors, num_authors))
        names == [i \in 1..Len(sliced) |-> format_credit_name(sliced[i])]
        author_string == Join(<<", ">>, [i \in 1..Len(sliced) |-> names[i].v.v])
    IN  IF nav.raised # "" THEN Raised(nav.raised, <<>>)
        ELSE IF num_authors = 0
        THEN Returned(<<>>, Append(warnings1, Warning("Empty author list", "", <<>>, self.info)))
        ELSE IF contributors.t \in {"dict", "str"} THEN Raised("TypeError", nav.warnings)
        ELSE IF \E i \in 1..Len(sliced) : names[i].exc # ""
        THEN Raised(names[CHOOSE i \in 1..Len(sliced) :
                              /\ names[i].exc # ""
                              /\ \A j \in 1..(i - 1) : names[j].exc = ""].exc,
                    nav.warnings)
        ELSE IF \E i \in 1..Len(sliced) : names[i].v.t # "str"
        THEN Raised("TypeError", nav.warnings)
        ELSE IF num_authors >= max_num_authors
        THEN Returned(author_string \o <<" et al.">>, nav.warnings)
        ELSE Returned(author_string, nav.warnings)

\* Work._author_string(max_num_authors)
Work_author_string(self, max_num_authors) ==
    LET nav == Work_navigate(self, <<"contributors", "contributor">>, None, FALSE)
        contributors == nav.value
        sized == contributors.t \in {"list", "str", "dict"}
        num_authors == IF contributors.t \in {"list", "str"} THEN Len(contributors.v)
                       ELSE IF contributors.t = "dict"
                       THEN Cardinality(DOMAIN contributors.v) ELSE 0
        warnings1 == IF sized THEN nav.warnings
                     ELSE Append(nav.warnings, Warning("len", "", <<>>, <<>>))
        sliced == SubSeq(contributors.v, 1, Min(max_num_authors, num_authors))
        names == [i \in 1..Len(sliced) |-> format_credit_name(sliced[i])]
        author_string == Join(<<", ">>, [i \in 1..Len(sliced) |-> names[i].v.v])
    IN  IF nav.raised # "" THEN Raised(nav.raised, <<>>)
        ELSE IF num_authors = 0
        THEN Returned(<<>>, Append(warnings1, Warning("Empty author list", "", <<>>, self.info)))
        ELSE IF contributors.t \in {"dict", "str"} THEN Raised("TypeError", nav.warnings)
        ELSE IF \E i \in 1..Len(sliced) : names[i].exc # ""
        THEN Raised(names[CHOOSE i \in 1..Len(sliced) :
                              /\ names[i].exc # ""
                              /\ \A j \in 1..(i - 1) : names[j].exc = ""].exc,
                    nav.warnings)
        ELSE IF \E i \in 1..Len(sliced) : names[i].v.t # "str"
        THEN Raised("TypeError", nav.warnings)
        ELSE IF num_authors > max_num_authors
        THEN Returned(author_string \o <<" et al.">>, nav.warnings)
        ELSE Returned(author_string, nav.warnings)

\* Work._bibtex_value(key, text): None, or the characters of the value.
bibtex_value(key, text) ==
    IF ~Contains(text, KeyChars(key)) THEN None
    ELSE LET value == BeforeFirst(AfterLast(text, KeyChars(key)), ",")
         IN  PyStr(Strip(Remove(Remove(value, " "), "="), {"=", "{", "}"}))

\* Work._citation_data with any journal title taken for proceedings.
Work_citation_data_any_journal(self, journal) ==
    LET nav == Work_navigate(self, <<"citation">>, None, FALSE)
        data == nav.value
        citation_type == IF "citation-type" \in DOMAIN data.v
                         THEN data.v["citation-type"] ELSE None
        bibtex == Subscript(data, "citation-value")
        values == [key \in {"volume", "number", "pages"} |-> bibtex_value(key, bibtex.v.v)]
        proceedings == journal.t = "str"
    IN  IF nav.raised # "" THEN Raised(nav.raised, <<>>)
        ELSE IF data = None
        THEN Returned(None, Append(nav.warnings,
                 Warning("No citation data available", "", <<>>, self.info)))
        ELSE IF data.t # "dict" THEN Raised("AttributeError", nav.warnings)
        ELSE IF citation_type = None
        THEN Returned(None, Append(nav.warnings,
                 Warning("No citation-type available", "", <<>>, self.info)))
        ELSE IF citation_type.t # "str" THEN Raised("AttributeError", nav.warnings)
        ELSE IF Lower(citation_type.v) = <<"b", "i", "b", "t", "e", "x">>
        THEN IF bibtex.exc # "" THEN Raised(bibtex.exc, nav.warnings)
             ELSE IF bibtex.v.t # "str" THEN Raised("TypeError", nav.warnings)
             ELSE IF values["volume"] = None /\ journal.t = "int"
             THEN Raised("TypeError", nav.warnings)
             ELSE IF values["volume"] = None /\ ~proceedings
             THEN Returned(PyDict(values), Append(nav.warnings,
                      Warning("No volume information available", "", <<>>, self.info)))
             ELSE Returned(PyDict(values), nav.warnings)
        ELSE Returned(None, Append(nav.warnings,
                 Warning("Unknown citation type", "", citation_type.v, self.info)))

\* Work._citation_data raising for a citation-type that is not bibtex.
Work_citation_data_unknown_fatal(self, journal) ==
    LET nav == Work_navigate(self, <<"citation">>, None, FALSE)
        data == nav.value
        citation_type == IF "citation-type" \in DOMAIN data.v
                         THEN data.v["citation-type"] ELSE None
        bibtex == Subscript(data, "citation-value")
        values == [key \in {"volume", "number", "pages"} |-> bibtex_value(key, bibtex.v.v)]
        proceedings == /\ journal.t = "str"
                       /\ \E i \in 1..Len(journal.v) : journal.v[i] \in PROCEEDINGS_PATTERNS
    IN  IF nav.raised # "" THEN Raised(nav.raised, <<>>)
        ELSE IF data = None
        THEN Returned(None, Append(nav.warnings,
                 Warning("No citation data available", "", <<>>, self.info)))
        ELSE IF data.t # "dict" THEN Raised("AttributeError", nav.warnings)
        ELSE IF citation_type = None
        THEN Returned(None, Append(nav.warnings,
                 Warning("No citation-type available", "", <<>>, self.info)))
        ELSE IF citation_type.t # "str" THEN Raised("AttributeError", nav.warnings)
        ELSE IF Lower(citation_type.v) = <<"b", "i", "b", "t", "e", "x">>
        THEN IF bibtex.exc # "" THEN Raised(bibtex.exc, nav.warnings)
             ELSE IF bibtex.v.t # "str" THEN Raised("TypeError", nav.warnings)
             ELSE IF values["volume"] = None /\ journal.t = "int"
             THEN Raised("TypeError", nav.warnings)
             ELSE IF values["volume"] = None /\ ~proceedings
             THEN Returned(PyDict(values), Append(nav.warnings,
                      Warning("No volume information available", "", <<>>, self.info)))
             ELSE Returned(PyDict(values), nav.warnings)
        ELSE Raised("ValueError", Append(nav.warnings,
                 Warning("Unknown citation type", "", citation_type.v, self.info)))

\* Work._citation_data; journal is self.journal.
Work_citation_data(self, journal) ==
    LET nav == Work_navigate(self, <<"citation">>, None, FALSE)
        data == nav.value
        citation_type == IF "citation-type" \in DOMAIN data.v
                         THEN data.v["citation-type"] ELSE None
        bibtex == Subscript(data, "citation-value")
        values == [key \in {"volume", "number", "pages"} |-> bibtex_value(key, bibtex.v.v)]
        proceedings == /\ journal.t = "str"
                       /\ \E i \in 1..Len(journal.v) : journal.v[i] \in PROCEEDINGS_PATTERNS
    IN  IF nav.raised # "" THEN Raised(nav.raised, <<>>)
        ELSE IF data = None
        THEN Returned(None, Append(nav.warnings,
                 Warning("No citation data available", "", <<>>, self.info)))
        ELSE IF data.t # "dict" THEN Raised("AttributeError", nav.warnings)
        ELSE IF citation_type = None
        THEN Returned(None, Append(nav.warnings,
                 Warning("No citation-type available", "", <<>>, self.info)))
        ELSE IF citation_type.t # "str" THEN Raised("AttributeError", nav.warnings)
        ELSE IF Lower(citation_type.v) = <<"b", "i", "b", "t", "e", "x">>
        THEN IF bibtex.exc # "" THEN Raised(bibtex.exc, nav.warnings)
             ELSE IF bibtex.v.t # "str" THEN Raised("TypeError", nav.warnings)
             ELSE IF values["volume"] = None /\ journal.t = "int"
             THEN Raised("TypeError", nav.warnings)
             ELSE IF values["volume"] = None /\ ~proceedings
             THEN Returned(PyDict(values), Append(nav.warnings,
                      Warning("No volume information available", "", <<>>, self.info)))
             ELSE Returned(PyDict(values), nav.warnings)
        ELSE Returned(None, Append(nav.warnings,
                 Warning("Unknown citation type", "", citation_type.v, self.info)))

MaxNumAuthors == 8

RECURSIVE Work_log(_, _)
\* The lines logged by the first n steps of Work.__init__.
Work_log(steps, n) ==
    IF n = 0 THEN <<>> ELSE Work_log(steps, n - 1) \o steps[n].warnings

\* The end of Work.__init__: steps are the outcomes of _date, _navigate('type'),
\* _navigate('journal-title', 'value'), _external_ids, _author_string and
\* _citation_data, in the order of the assignments.
Work_init_attributes(json_dict, path, title, info, steps) ==
    IF \E i \in 1..Len(steps) : steps[i].raised # ""
    THEN LET first == CHOOSE i \in 1..Len(steps) :
                          /\ steps[i].raised # ""
                          /\ \A j \in 1..(i - 1) : steps[j].raised = ""
         IN  [raised |-> steps[first].raised, obj |-> None,
              warnings |-> Work_log(steps, first)]
    ELSE LET external_ids == steps[4].value
             doi == IF "doi" \in DOMAIN external_ids THEN external_ids["doi"] ELSE None
             doi_url == IF doi = None THEN None
                        ELSE PyStr(<<"https://doi.org/">> \o Fmt(doi))
         IN  [raised |-> "",
              obj |-> [t |-> "Work", json |-> json_dict, path |-> path, title |-> title,
                       info |-> info, date |-> steps[1].value,
                       year |-> steps[1].value.year, type_ |-> steps[2].value,
                       journal |-> steps[3].value, external_ids |-> external_ids,
                       doi |-> doi, doi_url |-> doi_url,
                       author_string |-> steps[5].value,
                       citation_data |-> steps[6].value],
              warnings |-> Work_log(steps, Len(steps))]

\* Work.__init__ once self.json and self.info are set; journal is the outcome
\* of _navigate('journal-title', 'value').
Work_init_steps(self, path, title, journal) ==
    Work_init_attributes(self.json, path, title, self.info,
        <<Work_date(self),
          Work_navigate(self, <<"type">>, None, FALSE),
          journal,
          Work_external_ids(self),
          Work_author_string(self, MaxNumAuthors),
          IF journal.raised = "" THEN Work_citation_data(self, journal.value)
          ELSE Raised(journal.raised, <<>>)>>)

\* Work.__init__ once json_dict['path'] and json_dict['title']['title']['value']
\* are read.
Work_init_info(json_dict, path, title) ==
    IF path.exc # "" THEN [raised |-> path.exc, obj |-> None, warnings |-> <<>>]
    ELSE IF title.exc # "" THEN [raised |-> title.exc, obj |-> None, warnings |-> <<>>]
    ELSE LET self == [json |-> json_dict,
                      info |-> <<"path ">> \o Fmt(path.v) \o <<" (">> \o Fmt(title.v)
                               \o <<")">>]
         IN  Work_init_steps(self, path.v, title.v,
                 Work_navigate(self, <<"journal-title", "value">>, None, FALSE))

\* Work.__init__(json_dict): the exception raised ("" if none), the object
\* and the lines logged.
Work_init(json_dict) ==
    Work_init_info(json_dict, Subscript(json_dict, "path"),
                   SubscriptChain(json_dict, <<"title", "title", "value">>))

\* Work._citation_string(data, dash); ', ' is one piece of the text.
citation_string(data, dash) ==
    LET volume == data.v["volume"]
        number == data.v["number"]
        pages == data.v["pages"]
        text1 == IF volume # None THEN <<"Volume ">> \o volume.v ELSE <<>>
        text2 == IF number # None THEN text1 \o <<", ", "Number ">> \o number.v ELSE text1
        pages1 == ReplacePair(pages.v, "-", "-")
        pages2 == IF dash # "-" THEN Replace1(pages1, "-", dash) ELSE pages1
    IN  IF pages # None THEN text2 \o <<", ", "page(s) ">> \o pages2 ELSE text2

Work_repr_unstripped(self, title, dash) ==
    LET year == <<ToString(self.year)>>
        head == self.author_string \o <<", ", "\"">> \o title \o <<"\"">>
        citation == citation_string(self.citation_data, dash)
    IN  IF self.journal = None THEN head \o <<" (">> \o year \o <<")">>
        ELSE IF self.citation_data = None \/ citation = <<>>
        THEN head \o <<", ">> \o Fmt(self.journal) \o <<" (">> \o year \o <<")">>
        ELSE head \o <<", ">> \o Fmt(self.journal) \o <<", ">> \o citation
                  \o <<" (">> \o year \o <<")">>

\* Work._repr(title, dash)
Work_repr(self, title, dash) ==
    LET year == <<ToString(self.year)>>
        head == self.author_string \o <<", ", "\"">> \o title \o <<"\"">>
        citation == citation_string(self.citation_data, dash)
        citation1 == IF citation # <<>> /\ Head(citation) = ", "
                     THEN Remove(citation, ", ") ELSE citation
    IN  IF self.journal = None THEN head \o <<" (">> \o year \o <<")">>
        ELSE IF self.citation_data = None \/ citation = <<>>
        THEN head \o <<", ">> \o Fmt(self.journal) \o <<" (">> \o year \o <<")">>
        ELSE head \o <<", ">> \o Fmt(self.journal) \o <<", ">> \o citation1
                  \o <<" (">> \o year \o <<")">>

Work_ascii(self) == Work_repr(self, Fmt(self.title), "-")

Work_html(self) ==
    Work_repr(self, HTML_emph(HTML_hyperlink(Fmt(self.title), self.doi_url)), "&ndash;")

Work_latex_emph_outside(self) ==
    Work_repr(self, LaTeX_emph(LaTeX_hyperlink(Fmt(self.title), self.doi_url)), "--")

Work_latex(self) ==
    Work_repr(self, LaTeX_hyperlink(LaTeX_emph(Fmt(self.title)), self.doi_url), "--")

\* Work.__lt__
Work_lt(self, other) == DateLt(self.date, other.date)

-----------------------------------------------------------------------------
(* class TimeSpan *)

\* TimeSpan.__init__ without the check of the bounds.
TimeSpan_init_unchecked(begin, end) ==
    LET end1 == IF end = None THEN begin ELSE end.v
        begin_date == str_to_date(begin)
        end_date == str_to_date(end1)
    IN  IF begin_date = NoDate \/ end_date = NoDate
        THEN [raised |-> "ValueError", obj |-> None]
        ELSE [raised |-> "",
              obj |-> [t |-> "TimeSpan", begin_date |-> begin_date,
                       end_date |-> end_date]]

\* TimeSpan.__init__: the exception raised ("" if none) and the object.
TimeSpan_init(begin, end) ==
    LET end1 == IF end = None THEN begin ELSE end.v
        begin_date == str_to_date(begin)
        end_date == str_to_date(end1)
    IN  IF begin_date = NoDate \/ end_date = NoDate
        THEN [raised |-> "ValueError", obj |-> None]
        ELSE IF ~DateGe(end_date, begin_date)
        THEN [raised |-> "AssertionError", obj |-> None]
        ELSE [raised |-> "",
              obj |-> [t |-> "TimeSpan", begin_date |-> begin_date,
                       end_date |-> end_date]]

\* is_single_day comparing the day of the month only.
is_single_day_by_day(self) == self.begin_date.day = self.end_date.day

\* TimeSpan.is_single_day
is_single_day(self) == self.begin_date = self.end_date

\* TimeSpan.__format choosing the form of begin without looking at the year.
TimeSpan_format_month_only(self, separator) ==
    IF is_single_day(self)
    THEN date_to_str(self.begin_date, TRUE, TRUE)
    ELSE LET end == date_to_str(self.end_date, TRUE, TRUE)
             begin == IF self.begin_date.month # self.end_date.month
                      THEN date_to_str(self.begin_date, TRUE, FALSE)
                      ELSE date_to_str(self.begin_date, FALSE, FALSE)
         IN  begin \o <<separator>> \o end

\* TimeSpan.__format without the single-day case.
TimeSpan_format_always_range(self, separator) ==
    LET end == date_to_str(self.end_date, TRUE, TRUE)
        begin == IF self.begin_date.year # self.end_date.year
                 THEN date_to_str(self.begin_date, TRUE, TRUE)
                 ELSE IF self.begin_date.month # self.end_date.month
                 THEN date_to_str(self.begin_date, TRUE, FALSE)
                 ELSE date_to_str(self.begin_date, FALSE, FALSE)
    IN  begin \o <<separator>> \o end

\* TimeSpan.__format
TimeSpan_format(self, separator) ==
    IF is_single_day(self)
    THEN date_to_str(self.begin_date, TRUE, TRUE)
    ELSE LET end == date_to_str(self.end_date, TRUE, TRUE)
             begin == IF self.begin_date.year # self.end_date.year
                      THEN date_to_str(self.begin_date, TRUE, TRUE)
                      ELSE IF self.begin_date.month # self.end_date.month
                      THEN date_to_str(self.begin_date, TRUE, FALSE)
                      ELSE date_to_str(self.begin_date, FALSE, FALSE)
         IN  begin \o <<separator>> \o end

TimeSpan_ascii(self) == TimeSpan_format(self, "--")

TimeSpan_html(self) == TimeSpan_format(self, "&ndash;")

\* TimeSpan.latex with the typographic em dash.
TimeSpan_latex_emdash(self) == TimeSpan_format(self, "---")

TimeSpan_latex(self) == TimeSpan_format(self, "--")

TimeSpan_render(self, dialect) ==
    CASE dialect = "ascii" -> TimeSpan_ascii(self)
      [] dialect = "html" -> TimeSpan_html(self)
      [] dialect = "latex" -> TimeSpan_latex(self)

-----------------------------------------------------------------------------
(* Inputs of the time span checks *)

Years == {1977, 2012, 2019}
Months == {4, 5}
Days == {5, 10, 16, 17, 31}

Digits2(n) == <<DigitChars[(n \div 10) + 1], DigitChars[(n % 10) + 1]>>

Digits4(n) == Digits2(n \div 100) \o Digits2(n % 100)

\* The ISO string of a year, month and day (which need not be a date).
IsoStr(y, m, d) == Digits4(y) \o <<"-">> \o Digits2(m) \o <<"-">> \o Digits2(d)

IsoInputs == {IsoStr(y, m, d) : y \in Years, m \in Months, d \in Days}

NoText == [d \in Dialects |-> <<>>]

\* TimeSpan(begin, end), called once on the arguments drawn.
TimeSpanConstruct ==
    \E begin \in IsoInputs, end \in {None} \cup {PyStr(s) : s \in IsoInputs} :
        LET r == TimeSpan_init(begin, end)
        IN  /\ ts_args.begin = <<>>
            /\ time_span' = r.obj
            /\ ts_raised' = r.raised
            /\ ts_args' = [begin |-> begin, end |-> end]
            /\ ts_text' = NoText
            /\ ts_single' = {}
            /\ UNCHANGED <<co_vars, li_vars, wk_vars, or_vars>>

TimeSpanRender ==
    \E d \in Dialects :
        /\ time_span # None
        /\ ts_text' = [ts_text EXCEPT ![d] = TimeSpan_render(time_span, d)]
        /\ UNCHANGED <<time_span, ts_raised, ts_args, ts_single, co_vars, li_vars, wk_vars, or_vars>>

TimeSpanIsSingleDay ==
    /\ time_span # None
    /\ ts_single' = {is_single_day(time_span)}
    /\ UNCHANGED <<time_span, ts_raised, ts_args, ts_text, co_vars, li_vars, wk_vars, or_vars>>

\* Nothing constructed yet.
Init ==
    /\ time_span = None
    /\ ts_raised = ""
    /\ ts_args = [begin |-> <<>>, end |-> None]
    /\ ts_text = NoText
    /\ ts_single = {}
    /\ contribution = None
    /\ co_text = NoText
    /\ list_obj = None
    /\ list_text = [method |-> "", text |-> <<>>]
    /\ w_obj = None
    /\ w_json = None
    /\ w_raised = ""
    /\ w_log = <<>>
    /\ w_text = NoText
    /\ w_authors = [cap |-> 0, raised |-> "", value |-> <<>>]
    /\ w_nav = [keys |-> <<>>, default |-> None, quiet |-> FALSE, raised |-> "",
                value |-> None, warnings |-> <<>>]
    /\ cache = [name \in {} |-> None]
    /\ last_call = [op |-> ""]

NextTimeSpan == TimeSpanConstruct \/ TimeSpanRender \/ TimeSpanIsSingleDay

SpecTimeSpan == Init /\ [][NextTimeSpan]_vars

-----------------------------------------------------------------------------
(* class Contribution *)

Contribution_init(title, invited, poster, notes) ==
    [t |-> "Contribution", title |-> title, invited |-> invited,
     poster |-> poster, notes |-> notes]

\* Python's truth value of an Optional[str]: None and '' are false.
Truthy(x) == x # None /\ x.v # <<>>

\* Contribution.ascii testing the invited flag before the notes.
Contribution_ascii_invited_first(self) ==
    LET text == self.title
    IN  IF self.invited THEN text \o <<" (invited talk)">>
        ELSE IF Truthy(self.notes) THEN text \o <<" (">> \o self.notes.v \o <<")">>
        ELSE IF self.poster THEN text \o <<" (poster)">>
        ELSE text

Contribution_ascii(self) ==
    LET text == self.title
    IN  IF Truthy(self.notes) THEN text \o <<" (">> \o self.notes.v \o <<")">>
        ELSE IF self.invited THEN text \o <<" (invited talk)">>
        ELSE IF self.poster THEN text \o <<" (poster)">>
        ELSE text

Contribution_html(self) ==
    LET text == <<"<em>\"">> \o self.title \o <<"\"</em>">>
    IN  IF Truthy(self.notes) THEN text \o <<" (<b>">> \o self.notes.v \o <<"</b>)">>
        ELSE IF self.invited THEN text \o <<" (<b>invited talk</b>)">>
        ELSE IF self.poster THEN text \o <<" (poster)">>
        ELSE text

Contribution_latex(self) ==
    LET text == <<"\"\\emph{">> \o self.title \o <<"}\"">>
    IN  IF Truthy(self.notes)
        THEN text \o <<" ({\\bfseries ">> \o self.notes.v \o <<"})">>
        ELSE IF self.invited THEN text \o <<" ({\\bfseries invited talk})">>
        ELSE IF self.poster THEN text \o <<" (poster)">>
        ELSE text

Contribution_render(self, dialect) ==
    CASE dialect = "ascii" -> Contribution_ascii(self)
      [] dialect = "html" -> Contribution_html(self)
      [] dialect = "latex" -> Contribution_latex(self)

-----------------------------------------------------------------------------
(* Inputs of the contribution checks *)

Titles == {<<"T1">>, <<"T2">>}
Notes == {None, PyStr(<<>>), PyStr(<<"N1">>), PyStr(<<"N2">>)}

\* Contribution(title, invited, poster, notes), called once.
ContributionConstruct ==
    \E title \in Titles, invited \in BOOLEAN, poster \in BOOLEAN, notes \in Notes :
        /\ contribution = None
        /\ contribution' = Contribution_init(title, invited, poster, notes)
        /\ co_text' = NoText
        /\ UNCHANGED <<ts_vars, li_vars, wk_vars, or_vars>>

ContributionRender ==
    \E d \in Dialects :
        /\ contribution # None
        /\ co_text' = [co_text EXCEPT ![d] = Contribution_render(contribution, d)]
        /\ UNCHANGED <<contribution, ts_vars, li_vars, wk_vars, or_vars>>

NextContribution == ContributionConstruct \/ ContributionRender

SpecContribution == Init /\ [][NextContribution]_vars

-----------------------------------------------------------------------------
(* class WorkList *)

\* year_formatter of WorkList._format: str, or HTML.heading3 in html_simple
year_formatter(method, year) ==
    IF method = "html_simple" THEN HTML_heading3(<<ToString(year)>>)
    ELSE <<ToString(year)>>

\* work_formatter of WorkList._format
work_formatter(method, work) ==
    CASE method = "ascii" -> Work_ascii(work)
      [] method = "latex" -> Work_latex(work)
      [] method = "html_simple" -> Work_html(work)

RECURSIVE format_loop_mark_every_item(_, _, _, _, _)
\* The loop of WorkList._format with current_year never updated.
format_loop_mark_every_item(self, i, current_year, lines, method) ==
    IF i > Len(self) THEN lines
    ELSE LET work == self[i]
             marked == IF PyInt(work.year) # current_year
                       THEN Append(lines, year_formatter(method, work.year))
                       ELSE lines
             item == <<"[", ToString(i), "] ">> \o work_formatter(method, work)
         IN  format_loop_mark_every_item(self, i + 1, current_year, Append(marked, item),
                                         method)

RECURSIVE format_loop(_, _, _, _, _)
\* The loop of WorkList._format from item i on (i counts from 1 here),
\* current_year being None or an int.
format_loop(self, i, current_year, lines, method) ==
    IF i > Len(self) THEN lines
    ELSE LET work == self[i]
             marked == IF PyInt(work.year) # current_year
                       THEN Append(lines, year_formatter(method, work.year))
                       ELSE lines
             item == <<"[", ToString(i), "] ">> \o work_formatter(method, work)
         IN  format_loop(self, i + 1, PyInt(work.year), Append(marked, item), method)

\* WorkList._format
WorkList_format(self, method) == format_loop(self, 1, None, <<>>, method)

\* WorkList.ascii with every line, the last too, ended by a newline.
WorkList_ascii_terminated(self) == Join(<<"\n">>, WorkList_format(self, "ascii")) \o <<"\n">>

WorkList_ascii(self) == Join(<<"\n">>, WorkList_format(self, "ascii"))

WorkList_latex(self) == Join(<<"\n">>, WorkList_format(self, "latex"))

WorkList_html_simple(self, indent) ==
    HTML_list(WorkList_format(self, "html_simple"), indent)

RECURSIVE WorkList_html_loop_reset_per_year(_, _, _, _, _)
\* The loop of WorkList.html with the items numbered from 1 within each year.
WorkList_html_loop_reset_per_year(self, i, current_year, lines, indent) ==
    IF i > Len(self) THEN lines
    ELSE LET work == self[i]
             marked == IF PyInt(work.year) # current_year
                       THEN Append(lines, HTML_list_item(<<ToString(work.year)>>, indent + 1,
                                                         PyStr(<<"publication-year">>)))
                       ELSE lines
             first == CHOOSE j \in 1..i :
                          /\ j = 1 \/ self[j].year # self[j - 1].year
                          /\ \A k \in (j + 1)..i : self[k].year = self[k - 1].year
             text == <<"[", ToString(i - first + 1), "] ">> \o Work_html(work)
             item == HTML_list_item(text, indent + 1, PyStr(<<"publication-item">>))
         IN  WorkList_html_loop_reset_per_year(self, i + 1, PyInt(work.year),
                                               Append(marked, item), indent)

RECURSIVE WorkList_html_loop(_, _, _, _, _)
WorkList_html_loop(self, i, current_year, lines, indent) ==
    IF i > Len(self) THEN lines
    ELSE LET work == self[i]
             marked == IF PyInt(work.year) # current_year
                       THEN Append(lines, HTML_list_item(<<ToString(work.year)>>, indent + 1,
                                                         PyStr(<<"publication-year">>)))
                       ELSE lines
             text == <<"[", ToString(i), "] ">> \o Work_html(work)
             item == HTML_list_item(text, indent + 1, PyStr(<<"publication-item">>))
         IN  WorkList_html_loop(self, i + 1, PyInt(work.year), Append(marked, item), indent)

\* WorkList.html(indent)
WorkList_html(self, indent) ==
    Join(<<"\n">>,
         WorkList_html_loop(self, 1, None,
             <<HTML_tag_open("ul", indent, PyStr(<<"publication-list">>), <<>>)>>, indent)
         \o <<HTML_tag_close("ul", indent)>>)

RECURSIVE InsertDescending_before_equal(_, _)
InsertDescending_before_equal(s, x) ==
    IF s = <<>> THEN <<x>>
    ELSE IF ~Work_lt(x, Head(s)) THEN <<x>> \o s
    ELSE <<Head(s)>> \o InsertDescending_before_equal(Tail(s), x)

RECURSIVE InsertDescending(_, _)
\* x put before the first item of s that is less than x.
InsertDescending(s, x) ==
    IF s = <<>> THEN <<x>>
    ELSE IF Work_lt(Head(s), x) THEN <<x>> \o s
    ELSE <<Head(s)>> \o InsertDescending(Tail(s), x)

RECURSIVE SortDescending(_, _)
SortDescending(s, done) ==
    IF s = <<>> THEN done ELSE SortDescending(Tail(s), InsertDescending(done, Head(s)))

\* list.sort(reverse=True): a stable sort by Work.__lt__, greatest first.
WorkList_sort_reverse(self) == SortDescending(self, <<>>)

-----------------------------------------------------------------------------
(* classes Conference and ConferenceList *)

\* Conference.__init__: the exception raised ("" if none) and the object.
Conference_init(name, location, webpage, begin, end) ==
    LET ts == TimeSpan_init(begin, end)
    IN  IF ts.raised # "" THEN [raised |-> ts.raised, obj |-> None]
        ELSE [raised |-> "",
              obj |-> [t |-> "Conference", name |-> name, location |-> location,
                       webpage |-> webpage, time_span |-> ts.obj,
                       contributions |-> <<>>]]

\* Conference.add_contribution
Conference_add_contribution(self, title, invited, poster, notes) ==
    [self EXCEPT !.contributions =
        Append(@, Contribution_init(title, invited, poster, notes))]

\* Conference.year
Conference_year(self) == self.time_span.begin_date.year

RECURSIVE Conference_ascii_loop(_, _)
Conference_ascii_loop(text, contributions) ==
    IF contributions = <<>> THEN text
    ELSE Conference_ascii_loop(text \o <<"\n", "- ">> \o Contribution_ascii(Head(contributions)),
                               Tail(contributions))

\* Conference.ascii
Conference_ascii(self) ==
    Conference_ascii_loop(self.name \o <<", ">> \o self.location \o <<", ">>
                          \o TimeSpan_ascii(self.time_span), self.contributions)

RECURSIVE Conference_html_loop(_, _, _)
Conference_html_loop(text, contributions, indent) ==
    IF contributions = <<>> THEN text
    ELSE LET contr == HTML_indent(Contribution_html(Head(contributions)), indent + 1)
         IN  Conference_html_loop(text \o HTML_break \o <<"\n">> \o contr,
                                  Tail(contributions), indent)

\* Conference.html(indent)
Conference_html(self, indent) ==
    LET text == IF self.webpage # None
                THEN <<"<a href=\"">> \o Fmt(self.webpage) \o <<"\">">> \o self.name
                     \o <<"</a>">>
                ELSE self.name
    IN  Conference_html_loop(text \o <<", ">> \o self.location \o <<", ">>
                             \o TimeSpan_html(self.time_span), self.contributions, indent)

\* Conference.latex
Conference_latex(self) ==
    LET text == IF self.webpage # None
                THEN <<"\\href{">> \o Fmt(self.webpage) \o <<"}{">> \o self.name \o <<"}">>
                ELSE self.name
    IN  text \o <<", ">> \o self.location \o <<", ">> \o TimeSpan_latex(self.time_span)

RECURSIVE ConferenceList_html_loop(_, _, _, _, _)
ConferenceList_html_loop(self, i, current_year, lines, indent) ==
    IF i > Len(self) THEN lines
    ELSE LET conference == self[i]
             year == Conference_year(conference)
             marked == IF PyInt(year) # current_year
                       THEN Append(lines, HTML_list_item(<<ToString(year)>>, indent + 1,
                                                         PyStr(<<"conference-year">>)))
                       ELSE lines
             text == <<"[", ToString(i), "] ">> \o Conference_html(conference, indent + 1)
             item == HTML_list_item(text, indent + 1, PyStr(<<"conference-item">>))
         IN  ConferenceList_html_loop(self, i + 1, PyInt(year), Append(marked, item), indent)

\* ConferenceList.html(indent)
ConferenceList_html(self, indent) ==
    Join(<<"\n">>,
         ConferenceList_html_loop(self, 1, None,
             <<HTML_tag_open("ul", indent, PyStr(<<"conference-list">>), <<>>)>>, indent)
         \o <<HTML_tag_close("ul", indent)>>)

-----------------------------------------------------------------------------
(* Records of the ORCID API, as json.load returns them *)

ORCID_ID == <<"0000-0002-9785-7726">>

\* The citation-value of a record: a bibtex entry with the fields chosen.
BibtexText(volume, number, pages) ==
    <<"@", "a", "{", "k", ",", " ">>
    \o (IF volume THEN KeyChars("volume") \o <<" ", "=", " ", "{", "1", "2", "}", ",", " ">>
        ELSE <<>>)
    \o (IF number THEN KeyChars("number") \o <<"=", "{", "3", "}", ",", " ">> ELSE <<>>)
    \o (IF pages THEN KeyChars("pages") \o <<"=", "{", "1", "-", "-", "9", "}", ",", " ">>
        ELSE <<>>)
    \o <<"y", "=", "{", "1", "}", "}">>

Value(x) == PyDict("value" :> x)

Contributor(i) == PyDict("credit-name" :> Value(PyStr(<<"A" \o ToString(i)>>)))

\* The record of a work: p gives its put-code, year, month (0: null), day (0:
\* null), number of contributors (-1: null), journal (a str or None), whether
\* it has a doi, and its citation (None or a dict).
RawWork(p) ==
    PyDict(
        "put-code" :> PyInt(p.id)
        @@ "path" :> PyStr(<<"/">> \o ORCID_ID \o <<"/work/", ToString(p.id)>>)
        @@ "title" :> PyDict("title" :> Value(PyStr(<<"T" \o ToString(p.id)>>)))
        @@ "journal-title" :> (IF p.journal = None THEN None ELSE Value(p.journal))
        @@ "citation" :> p.citation
        @@ "type" :> PyStr(<<"journal-article">>)
        @@ "publication-date" :>
              PyDict("year" :> Value(PyStr(Digits4(p.year)))
                     @@ "month" :> (IF p.month = 0 THEN None
                                    ELSE Value(PyStr(Digits2(p.month))))
                     @@ "day" :> (IF p.day = 0 THEN None
                                  ELSE Value(PyStr(Digits2(p.day)))))
        @@ "external-ids" :>
              PyDict("external-id" :>
                  PyList(IF p.doi
                         THEN <<PyDict("external-id-type" :> PyStr(<<"doi">>)
                                       @@ "external-id-value" :>
                                              PyStr(<<"10.1/", ToString(p.id)>>))>>
                         ELSE <<>>))
        @@ "contributors" :>
              (IF p.nauth < 0 THEN None
               ELSE PyDict("contributor" :> PyList([i \in 1..p.nauth |-> Contributor(i)]))))

Bibtex(volume, number, pages) ==
    PyDict("citation-type" :> PyStr(<<"b", "i", "b", "t", "e", "x">>)
           @@ "citation-value" :> PyStr(BibtexText(volume, number, pages)))

Journal == PyStr(<<"Astroparticle Physics">>)

-----------------------------------------------------------------------------
(* A Work constructed from a record, and rendered *)

MaxContributors == 10

\* Records that have every field, with the contributors, journal, doi and
\* citation chosen.
CompleteInputs ==
    {RawWork([id |-> 1, year |-> 2019, month |-> m, day |-> 0, nauth |-> n,
              journal |-> j, doi |-> doi, citation |-> c]) :
        m \in {0, 4}, n \in -1..MaxContributors, j \in {None, Journal},
        doi \in BOOLEAN, c \in {None, Bibtex(TRUE, TRUE, TRUE)}}

\* The record d with d[key] = value, and with key deleted.
With(d, key, value) == PyDict((key :> value) @@ d.v)

Without(d, key) == PyDict([k \in DOMAIN d.v \ {key} |-> d.v[k]])

BaseRecord ==
    RawWork([id |-> 1, year |-> 2019, month |-> 0, day |-> 0, nauth |-> 1,
             journal |-> Journal, doi |-> TRUE, citation |-> Bibtex(TRUE, TRUE, TRUE)])

RecordKeys == {"path", "title", "publication-date", "type", "journal-title",
               "external-ids", "contributors", "citation"}

\* Records with a field missing, null or of another shape than expected.
MalformedInputs ==
    {Without(BaseRecord, k) : k \in RecordKeys}
    \cup {With(BaseRecord, k, None) : k \in RecordKeys}
    \cup {With(BaseRecord, "title", PyDict("title" :> None)),
          With(BaseRecord, "publication-date", PyDict("year" :> None)),
          With(BaseRecord, "publication-date",
               PyDict("year" :> Value(PyStr(<<"n", "/", "a">>)) @@ "month" :> None
                      @@ "day" :> None)),
          With(BaseRecord, "external-ids", PyDict("external-id" :> None)),
          With(BaseRecord, "external-ids",
               PyDict("external-id" :> PyList(<<PyDict("external-id-type" :> PyStr(<<"doi">>))>>))),
          With(BaseRecord, "contributors",
               PyDict("contributor" :> PyList(<<PyDict("credit-name" :> None)>>))),
          With(BaseRecord, "contributors",
               PyDict("contributor" :> PyList(<<PyDict("contributor-orcid" :> None)>>))),
          With(BaseRecord, "citation", PyDict("citation-value" :> PyStr(<<"x">>))),
          With(BaseRecord, "citation",
               PyDict("citation-type" :> PyStr(<<"r", "i", "s">>)
                      @@ "citation-value" :> PyStr(<<"x">>)))}

\* Records whose citation is a bibtex entry with each choice of fields.
CitationRecord(j, volume, number, pages) ==
    RawWork([id |-> 1, year |-> 2019, month |-> 0, day |-> 0, nauth |-> 1,
             journal |-> j, doi |-> TRUE, citation |-> Bibtex(volume, number, pages)])

\* Journal titles that hold one of the PROCEEDINGS_PATTERNS.
ProceedingsJournals ==
    {PyStr(<<"Proceedings", " of Science">>), PyStr(<<"SPIE ", "Conference", " Series">>)}

CitationJournals == {None, Journal} \cup ProceedingsJournals

CitationInputs ==
    {CitationRecord(j, volume, number, pages) :
        j \in CitationJournals, volume \in BOOLEAN, number \in BOOLEAN, pages \in BOOLEAN}

\* The publication-date of a record: month and day are 0 for null, -1 for a
\* key that is not there, or the number.
PublicationDate(year, month, day) ==
    PyDict([k \in {"year"} \cup {"month" : i \in {month} \ {-1}}
                  \cup {"day" : i \in {day} \ {-1}} |->
               CASE k = "year" -> Value(PyStr(Digits4(year)))
                 [] k = "month" -> IF month = 0 THEN None ELSE Value(PyStr(Digits2(month)))
                 [] k = "day" -> IF day = 0 THEN None ELSE Value(PyStr(Digits2(day)))])

\* Records with each shape of the month and of the day.
DateInputs ==
    {With(BaseRecord, "publication-date", PublicationDate(2019, month, day)) :
        month \in {-1, 0, 4}, day \in {-1, 0, 5}}

CitationTypes == {<<"r", "i", "s">>, <<"B", "i", "b", "T", "e", "X">>}

\* Records whose citation has each citation-type.
CitationTypeInputs ==
    {With(BaseRecord, "citation",
          PyDict("citation-type" :> PyStr(type)
                 @@ "citation-value" :> PyStr(BibtexText(TRUE, TRUE, TRUE)))) :
        type \in CitationTypes}

WorkInputs ==
    CompleteInputs \cup MalformedInputs \cup CitationInputs \cup DateInputs
    \cup CitationTypeInputs

Caps == {1, 2, MaxNumAuthors, MaxNumAuthors + 1}

NoAuthors == [cap |-> 0, raised |-> "", value |-> <<>>]

NoNav == [keys |-> <<>>, default |-> None, quiet |-> FALSE, raised |-> "", value |-> None,
          warnings |-> <<>>]

\* Work(json_dict), called once on the record drawn.
WorkConstruct ==
    \E json_dict \in WorkInputs :
        LET r == Work_init(json_dict)
        IN  /\ w_json = None
            /\ w_json' = json_dict
            /\ w_obj' = r.obj
            /\ w_raised' = r.raised
            /\ w_log' = r.warnings
            /\ w_text' = NoText
            /\ w_authors' = NoAuthors
            /\ w_nav' = NoNav
            /\ UNCHANGED <<ts_vars, co_vars, li_vars, or_vars>>

WorkRender ==
    \E d \in Dialects :
        /\ w_obj # None
        /\ w_nav = NoNav
        /\ w_text' = [w_text EXCEPT ![d] = CASE d = "ascii" -> Work_ascii(w_obj)
                                             [] d = "html" -> Work_html(w_obj)
                                             [] d = "latex" -> Work_latex(w_obj)]
        /\ UNCHANGED <<w_obj, w_json, w_raised, w_log, w_authors, w_nav, ts_vars, co_vars,
                     li_vars, or_vars>>

\* work._author_string(cap), called once on the Work constructed
WorkAuthorString ==
    \E cap \in Caps :
        LET r == Work_author_string(w_obj, cap)
        IN  /\ w_obj # None
            /\ w_nav = NoNav
            /\ w_authors = NoAuthors
            /\ w_authors' = [cap |-> cap, raised |-> r.raised, value |-> r.value]
            /\ w_log' = w_log \o r.warnings
            /\ UNCHANGED <<w_obj, w_json, w_raised, w_text, w_nav, ts_vars, co_vars,
                         li_vars, or_vars>>

\* Chains of keys: of fields a record has, may have as null, or has not.
NavChains ==
    {<<StrKey("journal-title"), StrKey("value")>>,
     <<StrKey("publication-date"), StrKey("month"), StrKey("value")>>,
     <<StrKey("type"), StrKey("value")>>,
     <<StrKey("short-description")>>,
     <<StrKey("citation")>>,
     <<StrKey("title"), StrKey("subtitle"), StrKey("value")>>,
     <<StrKey("contributors"), StrKey("contributor"), IntKey(0), StrKey("credit-name"),
       StrKey("value")>>,
     <<StrKey("contributors"), StrKey("contributor"), IntKey(MaxContributors)>>}

NavDefaults == {None, PyStr(<<"n/a">>)}

\* work._navigate(*keys, default=default, quiet=quiet), called once on the Work
\* constructed
WorkNavigate ==
    \E keys \in NavChains, default \in NavDefaults, quiet \in BOOLEAN :
        LET r == Work_navigate_keys(w_obj, keys, default, quiet)
        IN  /\ w_obj # None
            /\ w_nav = NoNav
            /\ w_text = NoText
            /\ w_authors = NoAuthors
            /\ w_nav' = [keys |-> keys, default |-> default, quiet |-> quiet,
                         raised |-> r.raised, value |-> r.value, warnings |-> r.warnings]
            /\ w_log' = w_log \o r.warnings
            /\ UNCHANGED <<w_obj, w_json, w_raised, w_text, w_authors, ts_vars, co_vars,
                           li_vars, or_vars>>

NextWork == WorkConstruct \/ WorkRender \/ WorkAuthorString \/ WorkNavigate

SpecWork == Init /\ [][NextWork]_vars

-----------------------------------------------------------------------------
(* A WorkList or a ConferenceList filled, sorted and rendered *)

MaxWorks == 3
MaxConferences == 2
MaxContributions == 1

ListWorkInputs ==
    {RawWork([id |-> 1, year |-> 2020, month |-> 0, day |-> 0, nauth |-> 1,
              journal |-> Journal, doi |-> TRUE, citation |-> Bibtex(TRUE, TRUE, TRUE)]),
     RawWork([id |-> 2, year |-> 2020, month |-> 4, day |-> 0, nauth |-> 2,
              journal |-> None, doi |-> FALSE, citation |-> None]),
     RawWork([id |-> 3, year |-> 2019, month |-> 0, day |-> 0, nauth |-> 1,
              journal |-> Journal, doi |-> FALSE, citation |-> None]),
     RawWork([id |-> 4, year |-> 2019, month |-> 4, day |-> 5, nauth |-> 0,
              journal |-> None, doi |-> TRUE, citation |-> None])}

ConferenceInputs ==
    {[name |-> <<"EAS">>, location |-> <<"Valencia (Spain)">>,
      webpage |-> PyStr(<<"https://eas.unige.ch/EAS2022/">>),
      begin |-> IsoStr(2022, 6, 27), end |-> PyStr(IsoStr(2022, 7, 1))],
     [name |-> <<"GSR">>, location |-> <<"Cogne (Italy)">>, webpage |-> None,
      begin |-> IsoStr(2022, 6, 13), end |-> PyStr(IsoStr(2022, 6, 17))],
     [name |-> <<"SIF">>, location |-> <<"Arcavacata di Rende (Italy)">>,
      webpage |-> None, begin |-> IsoStr(2018, 9, 17), end |-> None],
     [name |-> <<"SIF">>, location |-> <<"Arcavacata di Rende (Italy)">>,
      webpage |-> None, begin |-> IsoStr(2018, 9, 21), end |-> PyStr(IsoStr(2018, 9, 17))]}

ContributionInputs ==
    {[title |-> <<"T1">>, invited |-> TRUE, poster |-> FALSE, notes |-> None],
     [title |-> <<"T2">>, invited |-> FALSE, poster |-> FALSE,
      notes |-> PyStr(<<"series of invited lectures">>)]}

WorkListMethods == {"ascii", "html", "latex", "html_simple"}

NoListText == [method |-> "", text |-> <<>>]

\* WorkList()
WorkListConstruct ==
    /\ list_obj = None
    /\ list_obj' = [t |-> "WorkList", items |-> <<>>]
    /\ list_text' = NoListText
    /\ UNCHANGED <<ts_vars, co_vars, wk_vars, or_vars>>

\* work_list.append(Work(json_dict)); nothing is appended when Work raises.
WorkListAppend ==
    \E json_dict \in ListWorkInputs :
        LET r == Work_init(json_dict)
        IN  /\ list_obj.t = "WorkList"
            /\ Len(list_obj.items) < MaxWorks
            /\ r.raised = ""
            /\ list_obj' = [list_obj EXCEPT !.items = Append(@, r.obj)]
            /\ list_text' = NoListText
            /\ UNCHANGED <<ts_vars, co_vars, wk_vars, or_vars>>

\* work_list.sort(reverse=True)
WorkListSort ==
    /\ list_obj.t = "WorkList"
    /\ list_obj' = [list_obj EXCEPT !.items = WorkList_sort_reverse(@)]
    /\ list_text' = NoListText
    /\ UNCHANGED <<ts_vars, co_vars, wk_vars, or_vars>>

WorkListRender_sorting ==
    \E method \in WorkListMethods :
        /\ list_obj.t = "WorkList"
        /\ list_text' =
              [method |-> method,
               text |-> CASE method = "ascii" -> WorkList_ascii(list_obj.items)
                          [] method = "latex" -> WorkList_latex(list_obj.items)
                          [] method = "html" -> WorkList_html(list_obj.items, 4)
                          [] method = "html_simple" ->
                                 WorkList_html_simple(list_obj.items, 4)]
        /\ list_obj' = [list_obj EXCEPT !.items = WorkList_sort_reverse(@)]
        /\ UNCHANGED <<ts_vars, co_vars, wk_vars, or_vars>>

\* work_list.ascii(), .html(), .latex() or .html_simple()
WorkListRender ==
    \E method \in WorkListMethods :
        /\ list_obj.t = "WorkList"
        /\ list_text' =
              [method |-> method,
               text |-> CASE method = "ascii" -> WorkList_ascii(list_obj.items)
                          [] method = "latex" -> WorkList_latex(list_obj.items)
                          [] method = "html" -> WorkList_html(list_obj.items, 4)
                          [] method = "html_simple" ->
                                 WorkList_html_simple(list_obj.items, 4)]
        /\ UNCHANGED <<list_obj, ts_vars, co_vars, wk_vars, or_vars>>

\* ConferenceList()
ConferenceListConstruct ==
    /\ list_obj = None
    /\ list_obj' = [t |-> "ConferenceList", items |-> <<>>]
    /\ list_text' = NoListText
    /\ UNCHANGED <<ts_vars, co_vars, wk_vars, or_vars>>

\* ConferenceList.add_conference; nothing is appended when Conference raises.
AddConference ==
    \E c \in ConferenceInputs :
        LET r == Conference_init(c.name, c.location, c.webpage, c.begin, c.end)
        IN  /\ list_obj.t = "ConferenceList"
            /\ Len(list_obj.items) < MaxConferences
            /\ list_obj' = IF r.raised = "" THEN [list_obj EXCEPT !.items = Append(@, r.obj)]
                           ELSE list_obj
            /\ list_text' = [method |-> r.raised, text |-> <<>>]
            /\ UNCHANGED <<ts_vars, co_vars, wk_vars, or_vars>>

\* Conference.add_contribution on a conference of the list
AddContribution ==
    \E i \in 1..MaxConferences, c \in ContributionInputs :
        /\ list_obj.t = "ConferenceList"
        /\ i <= Len(list_obj.items)
        /\ Len(list_obj.items[i].contributions) < MaxContributions
        /\ list_obj' = [list_obj EXCEPT !.items[i] =
               Conference_add_contribution(@, c.title, c.invited, c.poster, c.notes)]
        /\ list_text' = NoListText
        /\ UNCHANGED <<ts_vars, co_vars, wk_vars, or_vars>>

\* conference_list.html()
ConferenceListRender ==
    /\ list_obj.t = "ConferenceList"
    /\ list_text' = [method |-> "html", text |-> ConferenceList_html(list_obj.items, 4)]
    /\ UNCHANGED <<list_obj, ts_vars, co_vars, wk_vars, or_vars>>

\* conference.ascii(), .html() or .latex() on the conference that
\* add_conference returned last
ConferenceRender ==
    \E i \in 1..MaxConferences, d \in Dialects :
        /\ list_obj.t = "ConferenceList"
        /\ i = Len(list_obj.items)
        /\ list_text' =
              [method |-> "Conference." \o d, index |-> i,
               text |-> CASE d = "ascii" -> Conference_ascii(list_obj.items[i])
                          [] d = "html" -> Conference_html(list_obj.items[i], 0)
                          [] d = "latex" -> Conference_latex(list_obj.items[i])]
        /\ UNCHANGED <<list_obj, ts_vars, co_vars, wk_vars, or_vars>>

NextLists ==
    \/ WorkListConstruct \/ WorkListAppend \/ WorkListSort \/ WorkListRender
    \/ ConferenceListConstruct \/ AddConference \/ AddContribution
    \/ ConferenceListRender \/ ConferenceRender

SpecLists == Init /\ [][NextLists]_vars

-----------------------------------------------------------------------------
(* class ORCID *)

BASE_URL == "http://pub.orcid.org"

RECURSIVE json_encode(_)
\* The JSON value that json.dump writes for a Python value: null, a string, a
\* number, an array or an object.
json_encode(x) ==
    CASE x.t = "None" -> [j |-> "null"]
      [] x.t = "str" -> [j |-> "string", chars |-> x.v]
      [] x.t = "int" -> [j |-> "number", n |-> x.v]
      [] x.t = "list" -> [j |-> "array",
                          items |-> [i \in 1..Len(x.v) |-> json_encode(x.v[i])]]
      [] x.t = "dict" -> [j |-> "object",
                          members |-> [k \in DOMAIN x.v |-> json_encode(x.v[k])]]

RECURSIVE json_decode(_)
\* The Python value that json.load makes of a JSON value.
json_decode(y) ==
    CASE y.j = "null" -> None
      [] y.j = "string" -> PyStr(y.chars)
      [] y.j = "number" -> PyInt(y.n)
      [] y.j = "array" -> PyList([i \in 1..Len(y.items) |-> json_decode(y.items[i])])
      [] y.j = "object" -> PyDict([k \in DOMAIN y.members |-> json_decode(y.members[k])])

\* json.dump(data, file): the text written.  A text is JSON that spells a
\* value in some style (spacing, escapes), or it is not JSON.
json_dump(data) == [kind |-> "json", value |-> json_encode(data), style |-> "json.dump"]

\* json.load(file), resp.json(): the exception raised ("" if none) and the data
json_load(text) ==
    IF text.kind = "json" THEN [exc |-> "", v |-> json_decode(text.value)]
    ELSE [exc |-> "JSONDecodeError", v |-> None]

\* The file open(path, 'w') leaves before anything is written.
EmptyFile == [kind |-> "empty"]

\* os.path.exists(file_path)
exists(fs, file_path) == file_path \in DOMAIN fs

\* ORCID._url(path), path a str or None
ORCID_url(orcid_id, path) ==
    IF path = None THEN BASE_URL \o Text(<<"/">> \o orcid_id)
    ELSE BASE_URL \o Text(Fmt(path))

\* ORCID._file_path(file_name), file_name a text or None; the local folder is
\* left out of the name.
ORCID_file_path(orcid_id, file_name) ==
    IF file_name = None THEN Text(orcid_id \o <<".json">>) ELSE Text(file_name.v)

\* What a call returns: the exception raised ("" if none), the data, the files
\* it leaves and the urls it requested.
Outcome(raised, data, fs, requests) ==
    [raised |-> raised, data |-> data, fs |-> fs, requests |-> requests]

\* ORCID._fetch(url, output_file_path); resp is what requests.get meets.
ORCID_fetch_unwritten(url, output_file_path, fs, resp) ==
    IF resp.kind = "failure" THEN Outcome("ConnectionError", None, fs, <<url>>)
    ELSE LET opened == (output_file_path :> EmptyFile) @@ fs
             data == json_load(resp.body)
         IN  IF data.exc # "" THEN Outcome(data.exc, None, opened, <<url>>)
             ELSE Outcome("", data.v, opened, <<url>>)

ORCID_fetch(url, output_file_path, fs, resp) ==
    IF resp.kind = "failure" THEN Outcome("ConnectionError", None, fs, <<url>>)
    ELSE LET opened == (output_file_path :> EmptyFile) @@ fs
             data == json_load(resp.body)
         IN  IF data.exc # "" THEN Outcome(data.exc, None, opened, <<url>>)
             ELSE Outcome("", data.v, (output_file_path :> json_dump(data.v)) @@ fs,
                          <<url>>)

\* ORCID._read(input_file_path)
ORCID_read(input_file_path, fs) ==
    LET data == json_load(fs[input_file_path])
    IN  Outcome(data.exc, data.v, fs, <<>>)

\* ORCID._load(url, file_path, force_fetch)
ORCID_load_ignoring_cache(url, file_path, force_fetch, fs, resp) ==
    ORCID_fetch(url, file_path, fs, resp)

ORCID_load_with_fallback(url, file_path, force_fetch, fs, resp) ==
    IF exists(fs, file_path) /\ ~force_fetch /\ ORCID_read(file_path, fs).raised = ""
    THEN ORCID_read(file_path, fs)
    ELSE ORCID_fetch(url, file_path, fs, resp)

ORCID_load(url, file_path, force_fetch, fs, resp) ==
    IF exists(fs, file_path) /\ ~force_fetch THEN ORCID_read(file_path, fs)
    ELSE ORCID_fetch(url, file_path, fs, resp)

\* ORCID.work_summary(work) returning the last summary.
work_summary_last(work) ==
    LET summaries == Subscript(work, "work-summary")
    IN  IF summaries.exc # "" THEN summaries ELSE Index(summaries.v, -1)

\* ORCID.work_summary(work): the exception raised ("" if none) and the summary
work_summary(work) ==
    LET summaries == Subscript(work, "work-summary")
    IN  IF summaries.exc # "" THEN summaries ELSE Index(summaries.v, 0)

\* What ORCID() leaves: the exception raised ("" if none), the object (or
\* None), the files and the urls requested.
Constructed_ORCID(raised, obj, fs, requests) ==
    [raised |-> raised, obj |-> obj, fs |-> fs, requests |-> requests]

RECURSIVE ORCID_init_loop(_, _, _, _, _, _, _)

\* The body of the loop of ORCID.__init__ once the record of the work is
\* loaded; work is the outcome of Work() on it.
ORCID_init_append(self, groups, i, work_list, loaded, requests, web, work) ==
    IF loaded.raised # ""
    THEN Constructed_ORCID(loaded.raised, None, loaded.fs, requests \o loaded.requests)
    ELSE IF work.raised # ""
    THEN Constructed_ORCID(work.raised, None, loaded.fs, requests \o loaded.requests)
    ELSE ORCID_init_loop(self, groups, i + 1, Append(work_list, work.obj),
                         loaded.fs, requests \o loaded.requests, web)

\* The body of the loop of ORCID.__init__ once url and file_path are set.
ORCID_init_load(self, groups, i, work_list, loaded, requests, web) ==
    ORCID_init_append(self, groups, i, work_list, loaded, requests, web,
                      IF loaded.raised # "" THEN Raised(loaded.raised, <<>>)
                      ELSE Work_init(loaded.data))

ORCID_init_work_forced(self, groups, i, work_list, fs, requests, web, path, put_code) ==
    IF path.exc # "" THEN Constructed_ORCID(path.exc, None, fs, requests)
    ELSE IF put_code.exc # "" THEN Constructed_ORCID(put_code.exc, None, fs, requests)
    ELSE ORCID_init_load(self, groups, i, work_list,
             ORCID_load(ORCID_url(self.orcid_id, path.v),
                        ORCID_file_path(self.orcid_id,
                            PyStr(self.orcid_id \o <<"-work-">> \o Fmt(put_code.v)
                                  \o <<".json">>)),
                        TRUE, fs, web[ORCID_url(self.orcid_id, path.v)]),
             requests, web)

\* The body of the loop with the record of the work not kept in its file.
ORCID_init_work_unsaved(self, groups, i, work_list, fs, requests, web, path, put_code) ==
    IF path.exc # "" THEN Constructed_ORCID(path.exc, None, fs, requests)
    ELSE IF put_code.exc # "" THEN Constructed_ORCID(put_code.exc, None, fs, requests)
    ELSE ORCID_init_load(self, groups, i, work_list,
             [ORCID_load(ORCID_url(self.orcid_id, path.v),
                         ORCID_file_path(self.orcid_id,
                             PyStr(self.orcid_id \o <<"-work-">> \o Fmt(put_code.v)
                                   \o <<".json">>)),
                         FALSE, fs, web[ORCID_url(self.orcid_id, path.v)])
                 EXCEPT !.fs = fs],
             requests, web)

\* The body of the loop of ORCID.__init__ once the summary is read.
ORCID_init_work(self, groups, i, work_list, fs, requests, web, path, put_code) ==
    IF path.exc # "" THEN Constructed_ORCID(path.exc, None, fs, requests)
    ELSE IF put_code.exc # "" THEN Constructed_ORCID(put_code.exc, None, fs, requests)
    ELSE ORCID_init_load(self, groups, i, work_list,
             ORCID_load(ORCID_url(self.orcid_id, path.v),
                        ORCID_file_path(self.orcid_id,
                            PyStr(self.orcid_id \o <<"-work-">> \o Fmt(put_code.v)
                                  \o <<".json">>)),
                        FALSE, fs, web[ORCID_url(self.orcid_id, path.v)]),
             requests, web)

\* The body of the loop of ORCID.__init__ once work_summary(work) is called.
ORCID_init_summary(self, groups, i, work_list, fs, requests, web, summary) ==
    IF summary.exc # "" THEN Constructed_ORCID(summary.exc, None, fs, requests)
    ELSE ORCID_init_work(self, groups, i, work_list, fs, requests, web,
                         Subscript(summary.v, "path"), Subscript(summary.v, "put-code"))

\* The loop of ORCID.__init__ over the groups from the i-th on, and the sort
\* that follows it.
ORCID_init_loop(self, groups, i, work_list, fs, requests, web) ==
    IF i > Len(groups)
    THEN Constructed_ORCID("", [orcid_id |-> self.orcid_id, data |-> self.data,
                                work_list |-> WorkList_sort_reverse(work_list)],
                           fs, requests)
    ELSE ORCID_init_summary(self, groups, i, work_list, fs, requests, web,
                            work_summary(groups[i]))

\* ORCID.__init__ once the top-level record is loaded.
ORCID_init_works(orcid_id, loaded, web, groups) ==
    IF loaded.raised # ""
    THEN Constructed_ORCID(loaded.raised, None, loaded.fs, loaded.requests)
    ELSE IF groups.exc # ""
    THEN Constructed_ORCID(groups.exc, None, loaded.fs, loaded.requests)
    ELSE IF groups.v.t # "list" /\ ~IsEmptyIterable(groups.v)
    THEN Constructed_ORCID("TypeError", None, loaded.fs, loaded.requests)
    ELSE ORCID_init_loop([orcid_id |-> orcid_id, data |-> loaded.data],
                         IF groups.v.t = "list" THEN groups.v.v ELSE <<>>,
                         1, <<>>, loaded.fs, loaded.requests, web)

\* ORCID.__init__ once the top-level record is loaded: the groups are
\* self.data['activities-summary']['works']['group'].
ORCID_init_data(orcid_id, loaded, web) ==
    ORCID_init_works(orcid_id, loaded, web,
        IF loaded.raised # "" THEN [exc |-> loaded.raised, v |-> None]
        ELSE SubscriptChain(loaded.data, <<"activities-summary", "works", "group">>))

\* ORCID(orcid_id, force_fetch) on the files fs, web giving what the server
\* answers to a request of each url.
ORCID_init(orcid_id, force_fetch, fs, web) ==
    ORCID_init_data(orcid_id,
        ORCID_load(ORCID_url(orcid_id, None), ORCID_file_path(orcid_id, None),
                   force_fetch, fs, web[ORCID_url(orcid_id, None)]),
        web)

-----------------------------------------------------------------------------
(* The ORCID API and the cache folder *)

MaxCalls == 2

PutCodes == {1, 2}

\* The record of work c as the server holds it.
WorkDoc(c, year) ==
    RawWork([id |-> c, year |-> year, month |-> 0, day |-> 0, nauth |-> 1,
             journal |-> Journal, doi |-> TRUE, citation |-> None])

\* An item of work['work-summary']
Summary(c) ==
    PyDict("put-code" :> PyInt(c)
           @@ "path" :> PyStr(<<"/">> \o ORCID_ID \o <<"/work/", ToString(c)>>))

\* The top-level record of a researcher whose groups are the works codes;
\* each group holds a second summary, of the other work.
RootDoc(codes) ==
    PyDict("activities-summary" :>
        PyDict("works" :>
            PyDict("group" :>
                PyList([i \in 1..Len(codes) |->
                            PyDict("work-summary" :>
                                PyList(<<Summary(codes[i]), Summary(3 - codes[i])>>))]))))

\* What the API answers with an error status.
ErrorDoc ==
    PyDict("response-code" :> PyInt(404) @@ "error-code" :> PyInt(9016)
           @@ "developer-message" :> PyStr(<<"404 Not Found">>))

\* The put-codes of the groups of the top-level record, in its order.
GroupLists == {<<>>, <<1>>, <<2>>, <<1, 2>>, <<2, 1>>, <<1, 1>>}

\* What requests.get gives: a response with a status and a body, or a failure
\* of the connection.
Response(status, body) == [kind |-> "response", status |-> status, body |-> body]

ServerText(doc) == [kind |-> "json", value |-> json_encode(doc), style |-> "server"]

NotFound == Response(404, ServerText(ErrorDoc))

Unavailable == Response(503, [kind |-> "html"])

ConnectionFailure == [kind |-> "failure"]

Failures == {NotFound, Unavailable, ConnectionFailure}

RootResponses == {Response(200, ServerText(RootDoc(g))) : g \in GroupLists} \cup Failures

\* Work 1 is of 2020, work 2 of 2020 or of 2021.
WorkYears(c) == IF c = 1 THEN {2020} ELSE {2020, 2021}

WorkResponses(c) ==
    {Response(200, ServerText(WorkDoc(c, year))) : year \in WorkYears(c)} \cup Failures

RootUrl == ORCID_url(ORCID_ID, None)

RootFile == ORCID_file_path(ORCID_ID, None)

WorkUrl(c) == ORCID_url(ORCID_ID, Summary(c).v["path"])

WorkFile(c) ==
    ORCID_file_path(ORCID_ID,
                    PyStr(ORCID_ID \o <<"-work-">> \o Fmt(PyInt(c)) \o <<".json">>))

\* What the server answers to the requests of the works: the records, or the
\* same failure to each.
WorkWebs ==
    {[u \in {WorkUrl(c) : c \in PutCodes} |-> NotFound]}
    \cup {(WorkUrl(1) :> r1) @@ (WorkUrl(2) :> r2) :
             r1 \in WorkResponses(1) \ Failures, r2 \in WorkResponses(2) \ Failures}

\* The server: what it answers to a request of each url.
Webs == {(RootUrl :> root) @@ works : root \in RootResponses, works \in WorkWebs}

\* The calls made so far are counted in last_call.
Calls == IF last_call.op = "" THEN 0 ELSE last_call.n

\* ORCID._load(url, file_path, force_fetch) on a record of the researcher
Load ==
    \E c \in PutCodes \cup {0}, force_fetch \in BOOLEAN :
        \E resp \in IF c = 0 THEN RootResponses ELSE WorkResponses(c) :
            LET url == IF c = 0 THEN RootUrl ELSE WorkUrl(c)
                file_path == IF c = 0 THEN RootFile ELSE WorkFile(c)
                r == ORCID_load(url, file_path, force_fetch, cache, resp)
            IN  /\ Calls < MaxCalls
                /\ cache' = r.fs
                /\ last_call' = [op |-> "_load", n |-> Calls + 1, url |-> url,
                                 file_path |-> file_path, force_fetch |-> force_fetch,
                                 resp |-> resp, before |-> cache, raised |-> r.raised,
                                 data |-> r.data, requests |-> r.requests]
                /\ UNCHANGED <<ts_vars, co_vars, li_vars, wk_vars>>

\* ORCID(orcid_id, force_fetch)
ORCIDConstruct ==
    \E force_fetch \in BOOLEAN, web \in Webs :
        LET r == ORCID_init(ORCID_ID, force_fetch, cache, web)
        IN  /\ Calls < MaxCalls
            /\ cache' = r.fs
            /\ last_call' = [op |-> "ORCID", n |-> Calls + 1, force_fetch |-> force_fetch,
                             web |-> web, before |-> cache, raised |-> r.raised,
                             obj |-> r.obj, requests |-> r.requests]
            /\ UNCHANGED <<ts_vars, co_vars, li_vars, wk_vars>>

NextORCID == Load \/ ORCIDConstruct

SpecORCID == Init /\ [][NextORCID]_vars

-----------------------------------------------------------------------------
(* Properties of TimeSpan *)

\* The year, month and day an ISO input string was written from.
ArgDate(s) ==
    LET ymd == CHOOSE x \in Years \X Months \X Days : IsoStr(x[1], x[2], x[3]) = s
    IN  Date(ymd[1], ymd[2], ymd[3])

\* The day count of a date in a calendar of 31-day months (order only).
Ordinal(date) == (date.year * 12 + date.month) * 31 + date.day

Constructed == ts_args.begin # <<>>

ArgBegin == ArgDate(ts_args.begin)

ArgEnd == IF ts_args.end = None THEN ArgBegin ELSE ArgDate(ts_args.end.v)

TwoDigits(n) == IF n < 10 THEN "0" \o ToString(n) ELSE ToString(n)

Full(date) == <<TwoDigits(date.day), " ", MonthNames[date.month], ", ",
                ToString(date.year)>>

Separator(d) == IF d = "html" THEN "&ndash;" ELSE "--"

Separators == {"--", "&ndash;", "---"}

\* C1: a TimeSpan that construction returns has end_date >= begin_date, and a
\* construction whose end is earlier than its begin fails with the assertion
\* and returns no object (the bounds are not swapped).
C1_EndNotBeforeBegin ==
    /\ time_span # None =>
          /\ Ordinal(time_span.end_date) >= Ordinal(time_span.begin_date)
          /\ time_span.begin_date = ArgBegin
          /\ time_span.end_date = ArgEnd
    /\ (Constructed /\ Ordinal(ArgEnd) < Ordinal(ArgBegin)) =>
          /\ time_span = None
          /\ ts_raised \in {"AssertionError", "ValueError"}
          /\ (ts_raised = "ValueError" =>
                 \E a \in {ArgBegin, ArgEnd} : a.day > DaysInMonth(a.year, a.month))

C1_Witness ==
    /\ Constructed
    /\ Ordinal(ArgEnd) < Ordinal(ArgBegin)
    /\ ts_raised = "AssertionError"

\* C2: is_single_day() is true for TimeSpan(d, d) and for TimeSpan(d), and
\* false for TimeSpan(d1, d2) with d1 < d2.
C2_SingleDay ==
    ts_single # {} =>
        /\ (ts_args.end = None => ts_single = {TRUE})
        /\ (Ordinal(ArgBegin) = Ordinal(ArgEnd) => ts_single = {TRUE})
        /\ (Ordinal(ArgBegin) < Ordinal(ArgEnd) => ts_single = {FALSE})

C2_Witness ==
    /\ ts_single = {FALSE}
    /\ ArgBegin.day = ArgEnd.day
    /\ ArgBegin.month = ArgEnd.month

\* C3: for begin < end the text is begin_str, separator, end_str: end_str is
\* the full date; begin_str is the full date when the years differ, day and
\* month when only the months differ, and the day alone otherwise.
C3_RangeFormat ==
    \A d \in Dialects :
        (ts_text[d] # <<>> /\ Ordinal(ArgBegin) < Ordinal(ArgEnd)) =>
            LET b == ArgBegin
                e == ArgEnd
                begin_str ==
                    IF b.year # e.year THEN Full(b)
                    ELSE IF b.month # e.month
                    THEN <<TwoDigits(b.day), " ", MonthNames[b.month]>>
                    ELSE <<TwoDigits(b.day)>>
            IN  /\ ts_text[d] = begin_str \o <<Separator(d)>> \o Full(e)
                /\ (ts_args.begin = IsoStr(1977, 4, 5) /\ e = Date(2019, 5, 10)
                    /\ d = "ascii") =>
                       Text(ts_text[d]) = "05 April, 1977--10 May, 2019"
                /\ (ts_args.begin = IsoStr(2012, 4, 16) /\ e = Date(2012, 4, 17)
                    /\ d = "ascii") =>
                       Text(ts_text[d]) = "16--17 April, 2012"

C3_Witness ==
    /\ time_span # None
    /\ ArgBegin = Date(1977, 4, 5)
    /\ ArgEnd = Date(2019, 4, 10)
    /\ Text(ts_text["ascii"]) = "05 April, 1977--10 April, 2019"
    /\ Text(ts_text["html"]) = "05 April, 1977&ndash;10 April, 2019"

\* C4: a single-day TimeSpan renders in every dialect as the one full date,
\* with no separator in it.
C4_SingleDayFormat ==
    \A d \in Dialects :
        (ts_text[d] # <<>> /\ Ordinal(ArgBegin) = Ordinal(ArgEnd)) =>
            /\ ts_text[d] = Full(ArgBegin)
            /\ \A i \in 1..Len(ts_text[d]) : ts_text[d][i] \notin Separators
            /\ ArgBegin = Date(1977, 4, 5) => Text(ts_text[d]) = "05 April, 1977"

C4_Witness ==
    /\ ts_args.end # None
    /\ \A d \in Dialects : Text(ts_text[d]) = "05 April, 1977"

\* The text with every separator piece taken out.
Parts(s) == SelectSeq(s, LAMBDA p : p \notin Separators)

\* C5: the three renderings of a TimeSpan differ only in the separator: '--'
\* in ascii() and latex(), '&ndash;' in html(); the begin and end parts are
\* the same in all three and latex() equals ascii().
C5_DialectsDifferInSeparator ==
    \A d1, d2 \in Dialects :
        (ts_text[d1] # <<>> /\ ts_text[d2] # <<>>) =>
            /\ Parts(ts_text[d1]) = Parts(ts_text[d2])
            /\ Len(ts_text[d1]) = Len(ts_text[d2])
            /\ \A i \in 1..Len(ts_text[d1]) :
                  ts_text[d1][i] \in Separators =>
                      /\ ts_text[d1][i] = Separator(d1)
                      /\ ts_text[d2][i] = Separator(d2)
            /\ ({d1, d2} = {"ascii", "latex"} => ts_text[d1] = ts_text[d2])

C5_Witness ==
    /\ \A d \in Dialects : ts_text[d] # <<>>
    /\ Ordinal(ArgBegin) < Ordinal(ArgEnd)
    /\ ts_text["latex"] = ts_text["ascii"]
    /\ ts_text["html"] # ts_text["ascii"]

-----------------------------------------------------------------------------
(* Properties of Contribution *)

InvitedMarks == {" (invited talk)", " (<b>invited talk</b>)",
                 " ({\\bfseries invited talk})"}

PosterMarks == {" (poster)"}

Has(s, marks) == \E i \in 1..Len(s) : s[i] \in marks

\* The pieces of a rendered contribution after its title.
Annotation(s, d) ==
    IF d = "ascii" THEN SubSeq(s, 2, Len(s)) ELSE SubSeq(s, 4, Len(s))

NotesMark(d, n) ==
    CASE d = "ascii" -> <<" (", n, ")">>
      [] d = "html" -> <<" (<b>", n, "</b>)">>
      [] d = "latex" -> <<" ({\\bfseries ", n, "})">>

\* C6: in every dialect the annotation is the notes when they are not empty,
\* else the invited-talk mark when invited, else the poster mark when poster,
\* else nothing; never two of them.
C6_AnnotationPrecedence ==
    \A d \in Dialects :
        co_text[d] # <<>> =>
            LET c == contribution
                a == Annotation(co_text[d], d)
                hasNotes == c.notes # None /\ c.notes.v # <<>>
            IN  /\ hasNotes =>
                      /\ a = NotesMark(d, c.notes.v[1])
                      /\ ~Has(co_text[d], InvitedMarks)
                      /\ ~Has(co_text[d], PosterMarks)
                /\ (~hasNotes /\ c.invited) =>
                      /\ Len(a) = 1 /\ a[1] \in InvitedMarks
                      /\ ~Has(co_text[d], PosterMarks)
                /\ (~hasNotes /\ ~c.invited /\ c.poster) =>
                      /\ Len(a) = 1 /\ a[1] \in PosterMarks
                /\ (~hasNotes /\ ~c.invited /\ ~c.poster) => a = <<>>

C6_Witness ==
    /\ contribution # None
    /\ contribution.invited /\ contribution.poster
    /\ contribution.notes = PyStr(<<"N1">>)
    /\ Text(co_text["ascii"]) = "T1 (N1)"
    /\ Text(co_text["html"]) = "<em>\"T1\"</em> (<b>N1</b>)"
    /\ Text(co_text["latex"]) = "\"\\emph{T1}\" ({\\bfseries N1})"

-----------------------------------------------------------------------------
(* Properties of the rendered lists *)

\* The places of the newlines of a text.
Newlines(s) == {i \in 1..Len(s) : s[i] = "\n"}

\* The place of the k-th newline; 0 before the text and Len(s) + 1 after it.
NewlineAt(s, k) ==
    IF k = 0 THEN 0
    ELSE IF k > Cardinality(Newlines(s)) THEN Len(s) + 1
    ELSE CHOOSE p \in Newlines(s) : Cardinality({q \in Newlines(s) : q <= p}) = k

\* The lines of a text.
SplitLines(s) ==
    [k \in 1..(Cardinality(Newlines(s)) + 1) |->
         SubSeq(s, NewlineAt(s, k - 1) + 1, NewlineAt(s, k) - 1)]

Holds(line, piece) == \E i \in 1..Len(line) : line[i] = piece

YearTexts == {ToString(y) : y \in 1900..2100}

\* A line that opens an item holds its label; a year marker is a line that
\* holds a year and no label.
IsItemLine(line) == Holds(line, "[")

IsMarkerLine(line) == ~IsItemLine(line) /\ \E y \in YearTexts : Holds(line, y)

\* The item and marker lines of a rendering, in the order of the text.
Entries(text) ==
    SelectSeq(SplitLines(text), LAMBDA l : IsItemLine(l) \/ IsMarkerLine(l))

ItemLines(text) == SelectSeq(SplitLines(text), IsItemLine)

MarkerLines(text) == SelectSeq(SplitLines(text), IsMarkerLine)

MarkerYear(line) == CHOOSE y \in YearTexts : Holds(line, y)

\* The piece between '[' and '] ' at the start of the label of an item line.
Label(line) ==
    LET i == CHOOSE j \in 1..Len(line) : line[j] = "[" /\ \A k \in 1..(j - 1) : line[k] # "["
    IN  IF i + 2 <= Len(line) /\ line[i + 2] = "] " THEN line[i + 1] ELSE ""

ItemYear(x) == IF x.t = "Work" THEN x.year ELSE Conference_year(x)

\* The piece that tells one item from another: a work's title, a
\* conference's name.
ItemName(x) == IF x.t = "Work" THEN x.title.v[1] ELSE x.name[1]

Rendered == list_obj # None /\ list_text.method \in WorkListMethods

Items == list_obj.items

RECURSIVE ExpectedEntries(_, _)
\* What the rendering of items i.. is to hold by the rule on positions: a
\* marker where i is the first item or the year differs from the one before.
ExpectedEntries(items, i) ==
    IF i > Len(items) THEN <<>>
    ELSE (IF i = 1 \/ ItemYear(items[i]) # ItemYear(items[i - 1])
          THEN <<<<"year", ToString(ItemYear(items[i]))>>>> ELSE <<>>)
         \o <<<<"item", ItemName(items[i])>>>>
         \o ExpectedEntries(items, i + 1)

\* An entry read from the text: a marker and its year, or an item and the
\* name found on its line.
EntryRead(line, items) ==
    IF IsItemLine(line)
    THEN <<"item", IF \E k \in 1..Len(items) : Holds(line, ItemName(items[k]))
                   THEN ItemName(items[CHOOSE k \in 1..Len(items) :
                                           Holds(line, ItemName(items[k]))])
                   ELSE "">>
    ELSE <<"year", MarkerYear(line)>>

EntriesRead(text, items) ==
    LET e == Entries(text) IN [i \in 1..Len(e) |-> EntryRead(e[i], items)]

ListYears(items) == [i \in 1..Len(items) |-> ItemYear(items[i])]

\* C7: a rendered list holds a year marker exactly before each item that is
\* the first or whose year differs from the year of the item before it, with
\* that item's year, the items staying in the order of the list; works dated
\* 2020, 2020, 2019 give the two markers 2020 and 2019.
C7_YearMarkers ==
    Rendered =>
        /\ EntriesRead(list_text.text, Items) = ExpectedEntries(Items, 1)
        /\ ListYears(Items) = <<2020, 2020, 2019>> =>
               [i \in 1..Len(MarkerLines(list_text.text)) |->
                    MarkerYear(MarkerLines(list_text.text)[i])] = <<"2020", "2019">>

C7_Witness ==
    /\ Rendered
    /\ list_obj.t = "WorkList"
    /\ list_text.method = "ascii"
    /\ ListYears(Items) = <<2020, 2020, 2019>>
    /\ Len(MarkerLines(list_text.text)) = 2
    /\ Len(ItemLines(list_text.text)) = 3

\* C8: the k-th item of a rendered list carries the label [k], counted over
\* the whole list: the labels are 1..n whatever the years are, and no year
\* marker carries one.
C8_Numbering ==
    Rendered =>
        LET lines == ItemLines(list_text.text)
        IN  /\ Len(lines) = Len(Items)
            /\ \A k \in 1..Len(lines) :
                  /\ Label(lines[k]) = ToString(k)
                  /\ Holds(lines[k], ItemName(Items[k]))
            /\ \A k \in 1..Len(MarkerLines(list_text.text)) :
                  ~Holds(MarkerLines(list_text.text)[k], "[")

C8_Witness ==
    /\ Rendered
    /\ list_obj.t = "ConferenceList"
    /\ ListYears(Items) = <<2022, 2018>>
    /\ Label(ItemLines(list_text.text)[2]) = "2"
    /\ Len(MarkerLines(list_text.text)) = 2

\* C9: an empty list renders as the empty string in ascii and latex, and in
\* html as the opening and the closing tag of the list with nothing between.
C9_EmptyList ==
    (Rendered /\ Items = <<>>) =>
        LET text == list_text.text
            method == list_text.method
        IN  /\ method \in {"ascii", "latex"} => Text(text) = ""
            /\ (method = "html" /\ list_obj.t = "WorkList") =>
                   Text(text) = "        <ul class=\"publication-list\">\n        </ul>"
            /\ (method = "html" /\ list_obj.t = "ConferenceList") =>
                   Text(text) = "        <ul class=\"conference-list\">\n        </ul>"
            /\ method = "html_simple" => Text(text) = "        <ul>\n        </ul>"
            /\ Entries(text) = <<>>

C9_Witness ==
    /\ Rendered
    /\ list_obj.t = "ConferenceList"
    /\ Items = <<>>
    /\ Len(SplitLines(list_text.text)) = 2

ConferenceMethods == {"Conference." \o d : d \in Dialects}

\* What the method last called returns when it is called on obj.
CalledOn(obj, call) ==
    CASE call.method = "ascii" -> WorkList_ascii(obj.items)
      [] call.method = "latex" -> WorkList_latex(obj.items)
      [] call.method = "html_simple" -> WorkList_html_simple(obj.items, 4)
      [] call.method = "html" /\ obj.t = "WorkList" -> WorkList_html(obj.items, 4)
      [] call.method = "html" /\ obj.t = "ConferenceList" ->
             ConferenceList_html(obj.items, 4)
      [] call.method = "Conference.ascii" -> Conference_ascii(obj.items[call.index])
      [] call.method = "Conference.html" -> Conference_html(obj.items[call.index], 0)
      [] call.method = "Conference.latex" -> Conference_latex(obj.items[call.index])

\* C21: a step in which a rendering method of a WorkList, of a ConferenceList
\* or of a Conference (and with it of its TimeSpan and Contributions) returns
\* leaves the list and every object in it as they were, leaves the cache and
\* the requests made as they were, and the same call on the state it leaves
\* returns the same text.
C21_RenderingHasNoEffect ==
    [][list_text'.method \in WorkListMethods \cup ConferenceMethods
           => /\ list_obj' = list_obj
              /\ cache' = cache
              /\ last_call' = last_call
              /\ <<time_span, contribution, w_obj>>' = <<time_span, contribution, w_obj>>
              /\ CalledOn(list_obj', list_text') = list_text'.text
              /\ CalledOn(list_obj, list_text') = list_text'.text]_vars

C21_Witness ==
    /\ list_obj # None
    /\ list_obj.t = "ConferenceList"
    /\ Len(list_obj.items) = 2
    /\ list_obj.items[2].contributions # <<>>
    /\ list_text.method = "Conference.ascii"
    /\ list_text.index = 2
    /\ list_text.text = Conference_ascii(list_obj.items[2])

-----------------------------------------------------------------------------
(* Properties of Work *)

\* The credit names of the record a Work was made from, in their order.
CreditNames ==
    LET contributors == w_json.v["contributors"]
    IN  IF contributors = None THEN <<>>
        ELSE [i \in 1..Len(contributors.v["contributor"].v) |->
                  contributors.v["contributor"].v[i].v["credit-name"].v["value"].v[1]]

\* text is the first min(n, cap) names with ', ' between them, and then
\* ' et al.' if and only if n > cap.
Truncated(text, names, cap) ==
    LET n == Len(names)
        k == Min(n, cap)
        suffix == text # <<>> /\ text[Len(text)] = " et al."
    IN  /\ Len(text) = (2 * k - 1) + (IF n > cap THEN 1 ELSE 0)
        /\ \A i \in 1..k : text[2 * i - 1] = names[i]
        /\ \A i \in 1..(k - 1) : text[2 * i] = ", "
        /\ suffix <=> n > cap

HasPathAndTitle(record) ==
    /\ record.t = "dict"
    /\ "path" \in DOMAIN record.v
    /\ SubscriptChain(record, <<"title", "title", "value">>).exc = ""

\* C11: constructing a Work from a record that has its path and the value of
\* its title succeeds and returns a Work, whatever else the record lacks.
C11_OnlyPathAndTitleFatal ==
    (w_json # None /\ HasPathAndTitle(w_json)) => (w_raised = "" /\ w_obj # None)

RECURSIVE Leaf(_, _)
\* What a chain of keys leads to in an item: found is FALSE when a key of the
\* chain is missing at some depth.
Leaf(item, keys) ==
    IF keys = <<>> THEN [found |-> TRUE, v |-> item]
    ELSE IF GetItem(item, Head(keys)).exc # "" THEN [found |-> FALSE, v |-> None]
    ELSE Leaf(GetItem(item, Head(keys)).v, Tail(keys))

\* C12: _navigate never raises: it returns the leaf of a chain that is
\* present, and the default given when a key of the chain is missing at any
\* depth.
C12_NavigateNeverRaises ==
    w_nav # NoNav =>
        /\ w_nav.raised = ""
        /\ w_nav.value = IF Leaf(w_json, w_nav.keys).found
                         THEN Leaf(w_json, w_nav.keys).v ELSE w_nav.default

\* C22: when every key of the chain is there, _navigate returns the value the
\* chain leads to, whatever the default and be it None, and logs nothing.
C22_PresentChain ==
    (w_nav # NoNav /\ Leaf(w_json, w_nav.keys).found) =>
        /\ w_nav.raised = ""
        /\ w_nav.value = Leaf(w_json, w_nav.keys).v
        /\ w_nav.warnings = <<>>
        /\ w_log = Work_init(w_json).warnings

C22_Witness ==
    /\ w_nav # NoNav
    /\ Len(w_nav.keys) = 5
    /\ w_nav.default = PyStr(<<"n/a">>)
    /\ ~w_nav.quiet
    /\ w_nav.value = PyStr(<<"A1">>)
    /\ w_nav.warnings = <<>>

RECURSIVE FirstFailure(_, _, _)
\* The first key of the chain, from the i-th on, that the item reached has
\* not; 0 when the chain is there.
FirstFailure(item, keys, i) ==
    IF i > Len(keys) THEN 0
    ELSE IF GetItem(item, keys[i]).exc # "" THEN i
    ELSE FirstFailure(GetItem(item, keys[i]).v, keys, i + 1)

\* C23: when a key of the chain is not there, _navigate returns the default;
\* it logs one warning, of the first key that failed, the chain and the path
\* and title of the record, unless it is called in quiet mode, and then it
\* logs nothing.
C23_FailedChain ==
    (w_nav # NoNav /\ ~Leaf(w_json, w_nav.keys).found) =>
        /\ w_nav.raised = ""
        /\ w_nav.value = w_nav.default
        /\ w_nav.quiet => w_nav.warnings = <<>>
        /\ ~w_nav.quiet =>
               w_nav.warnings
                   = <<Warning("navigate",
                               w_nav.keys[FirstFailure(w_json, w_nav.keys, 1)].k,
                               w_nav.keys, w_obj.info)>>

\* The record has a publication year, and nothing but its month and day may
\* keep it from making a Work.
HasYear(record) ==
    /\ SubscriptChain(record, <<"publication-date", "year", "value">>).exc = ""
    /\ int(SubscriptChain(record, <<"publication-date", "year", "value">>).v).exc = ""
    /\ Work_init(With(record, "publication-date", PublicationDate(2019, 4, 5))).raised = ""

\* The month or day of the record as a number, 1 when it is null or not there.
DatePart(record, part) ==
    IF /\ Leaf(record, <<StrKey("publication-date"), StrKey(part), StrKey("value")>>).found
       /\ Leaf(record, <<StrKey("publication-date"), StrKey(part), StrKey("value")>>).v # None
    THEN int(Leaf(record, <<StrKey("publication-date"), StrKey(part),
                            StrKey("value")>>).v).v
    ELSE 1

\* C24: a record with a publication year makes a Work whose date is the year,
\* the month and the day of the record, 1 standing for a month or a day that
\* is null or not there; Work.year is that year, and no warning is logged for
\* the month or the day.
C24_DateDefaults ==
    (w_json # None /\ HasYear(w_json)) =>
        /\ w_raised = ""
        /\ w_obj # None
        /\ w_obj.date = Date(int(SubscriptChain(w_json, <<"publication-date", "year",
                                                         "value">>).v).v,
                             DatePart(w_json, "month"), DatePart(w_json, "day"))
        /\ w_obj.year = w_obj.date.year
        /\ \A i \in 1..Len(Work_init(w_json).warnings) :
               Work_init(w_json).warnings[i].what = "navigate"
                   => StrKey("publication-date") # Work_init(w_json).warnings[i].keys[1]

NoVolumeLogged(log) ==
    \E i \in 1..Len(log) : log[i].what = "No volume information available"

\* C25: a record whose citation is a bibtex entry makes a Work whose
\* citation_data holds the volume, number and pages of the entry, None for
\* each one the entry lacks, also when it is the volume; 'No volume
\* information available' is logged exactly when the entry has no volume and
\* the journal is None or holds none of the PROCEEDINGS_PATTERNS.
C25_NoVolumeNotFatal ==
    \A j \in CitationJournals, volume \in BOOLEAN, number \in BOOLEAN, pages \in BOOLEAN :
        w_json = CitationRecord(j, volume, number, pages) =>
            /\ w_raised = ""
            /\ w_obj.journal = j
            /\ w_obj.citation_data =
                   PyDict([k \in {"volume", "number", "pages"} |->
                       CASE k = "volume" -> IF volume THEN PyStr(<<"1", "2">>) ELSE None
                         [] k = "number" -> IF number THEN PyStr(<<"3">>) ELSE None
                         [] k = "pages" -> IF pages THEN PyStr(<<"1", "-", "-", "9">>)
                                           ELSE None])
            /\ NoVolumeLogged(w_log) <=>
                   /\ ~volume
                   /\ \/ j = None
                      \/ \A pattern \in PROCEEDINGS_PATTERNS :
                             \A i \in 1..Len(j.v) : j.v[i] # pattern

\* A proceedings title and an entry with pages only: nothing is logged.
C25_Witness ==
    /\ w_json = CitationRecord(PyStr(<<"SPIE ", "Conference", " Series">>),
                               FALSE, FALSE, TRUE)
    /\ w_obj # None
    /\ w_obj.citation_data # None
    /\ w_obj.citation_data.v["volume"] = None
    /\ w_obj.citation_data.v["pages"] # None
    /\ ~NoVolumeLogged(w_log)

\* The citation of the record has a citation-type that is a str other than
\* bibtex in any case, and the record makes a Work when it has no citation.
UnknownCitationType(record) ==
    /\ record # None
    /\ SubscriptChain(record, <<"citation", "citation-type">>).exc = ""
    /\ SubscriptChain(record, <<"citation", "citation-type">>).v.t = "str"
    /\ Lower(SubscriptChain(record, <<"citation", "citation-type">>).v.v)
           # <<"b", "i", "b", "t", "e", "x">>
    /\ Work_init(With(record, "citation", None)).raised = ""

UnknownTypeLogged(log, type) ==
    \E i \in 1..Len(log) : log[i].what = "Unknown citation type" /\ log[i].keys = type

\* C26: a record whose citation has a citation-type other than bibtex makes
\* no Work: the constructor logs the type and raises.
C26_UnknownTypeFatal ==
    UnknownCitationType(w_json) =>
        /\ w_raised # ""
        /\ w_obj = None
        /\ UnknownTypeLogged(w_log,
               SubscriptChain(w_json, <<"citation", "citation-type">>).v.v)

\* C26, amended: a record whose citation has a citation-type other than
\* bibtex makes a Work with citation_data None, 'Unknown citation type' and
\* the type are logged once, and the Work renders without a citation clause.
C26_UnknownTypeWarned ==
    UnknownCitationType(w_json) =>
        /\ w_raised = ""
        /\ w_obj # None
        /\ w_obj.citation_data = None
        /\ UnknownTypeLogged(w_log,
               SubscriptChain(w_json, <<"citation", "citation-type">>).v.v)
        /\ Cardinality({i \in 1..Len(w_log) : w_log[i].what = "Unknown citation type"}) = 1
        /\ \A d \in Dialects :
               \A i \in 1..Len(w_text[d]) :
                   w_text[d][i] \notin {"Volume ", "Number ", "page(s) "}

C26_Witness ==
    /\ UnknownCitationType(w_json)
    /\ SubscriptChain(w_json, <<"citation", "citation-value">>).v
           = PyStr(BibtexText(TRUE, TRUE, TRUE))
    /\ w_obj # None
    /\ w_obj.citation_data = None
    /\ w_text["ascii"] # <<>>

StartsWith(text, prefix) ==
    Len(text) >= Len(prefix) /\ SubSeq(text, 1, Len(prefix)) = prefix

\* Where the quoted title ends: the last '"' of the text.
ClosingQuote(text) ==
    CHOOSE k \in 1..Len(text) :
        text[k] = "\"" /\ \A i \in (k + 1)..Len(text) : text[i] # "\""

\* The citation of the Work has a volume, a number or pages.
HasCitationDetail ==
    /\ w_obj.citation_data # None
    /\ \E i \in 1..Len(BIBTEX_KEYS) : w_obj.citation_data.v[BIBTEX_KEYS[i]] # None

\* The text is 'authors, "title"', then rest, then ' (year)'.
HasClauses(text, rest) ==
    /\ StartsWith(text, w_obj.author_string \o <<", ", "\"">>)
    /\ \E i \in 1..Len(text) : text[i] = Text(Fmt(w_obj.title))
    /\ ClosingQuote(text) > Len(w_obj.author_string) + 2
    /\ SubSeq(text, ClosingQuote(text) + 1, Len(text))
           = rest \o <<" (", ToString(w_obj.year), ")">>

\* What stands between the journal and the year is one clause, not empty.
IsOneClause(citation) ==
    /\ citation # <<>>
    /\ citation[1] # ", "
    /\ citation[Len(citation)] # ", "

\* The rendering omits the clauses that are absent.
OmitsAbsentClauses(text) ==
    /\ w_obj.journal = None => HasClauses(text, <<>>)
    /\ (w_obj.journal # None /\ ~HasCitationDetail)
           => HasClauses(text, <<", ">> \o Fmt(w_obj.journal))
    /\ (w_obj.journal # None /\ HasCitationDetail)
           => \E k \in 1..Len(text) :
                  /\ HasClauses(text, <<", ">> \o Fmt(w_obj.journal) \o <<", ">>
                                      \o SubSeq(text, k, Len(text) - 3))
                  /\ IsOneClause(SubSeq(text, k, Len(text) - 3))
    /\ \A i \in 1..(Len(text) - 1) :
           text[i] = ", " => text[i + 1] \notin {", ", " ("}

\* C19: a rendered Work is 'authors, "title" (year)' when the journal is None,
\* 'authors, "title", journal (year)' when there is a journal and the citation
\* data is None or has no volume, number or pages, and 'authors, "title",
\* journal, citation (year)' otherwise, the citation not empty; no ', ' is
\* followed by another ', ' or by the ' (' of the year.
C19_AbsentClausesOmitted ==
    \A d \in Dialects :
        (w_obj # None /\ w_text[d] # <<>>) => OmitsAbsentClauses(w_text[d])

C19_Witness ==
    /\ w_obj # None
    /\ w_text["html"] # <<>>
    /\ w_text["ascii"] # <<>>
    /\ w_obj.journal # None
    /\ w_obj.citation_data # None
    /\ w_obj.citation_data.v["volume"] = None
    /\ w_obj.citation_data.v["number"] # None
    /\ w_obj.citation_data.v["pages"] = None
    /\ Text(w_text["ascii"]) = "A1, \"T1\", Astroparticle Physics, Number 3 (2019)"

\* The parts of the citation clause that a bibtex entry of BibtexText gives,
\* with the dash of the dialect in the page range.
ClauseParts(volume, number, pages, dash) ==
    (IF volume THEN <<"Volume 12">> ELSE <<>>)
    \o (IF number THEN <<"Number 3">> ELSE <<>>)
    \o (IF pages THEN <<"page(s) 1" \o dash \o "9">> ELSE <<>>)

\* ', '.join(parts), for one to three parts
JoinedParts(parts) ==
    CASE Len(parts) = 1 -> parts[1]
      [] Len(parts) = 2 -> parts[1] \o ", " \o parts[2]
      [] Len(parts) = 3 -> parts[1] \o ", " \o parts[2] \o ", " \o parts[3]

DialectDash(d) == CASE d = "ascii" -> "-" [] d = "html" -> "&ndash;" [] d = "latex" -> "--"

\* C30: a Work with a journal and a bibtex entry renders, after the title,
\* ', journal, clause (year)' where the clause is the parts of the entry that
\* are present, 'Volume v', 'Number n', 'page(s) p' in this order, joined by
\* ', ': 'Number n, page(s) p' when only the volume is absent.
C30_CitationClause ==
    \A j \in CitationJournals \ {None}, volume \in BOOLEAN, number \in BOOLEAN,
       pages \in BOOLEAN, d \in Dialects :
        (/\ w_json = CitationRecord(j, volume, number, pages)
         /\ volume \/ number \/ pages
         /\ w_text[d] # <<>>) =>
            Text(SubSeq(w_text[d], ClosingQuote(w_text[d]) + 1, Len(w_text[d])))
                = ", " \o Text(Fmt(j)) \o ", "
                  \o JoinedParts(ClauseParts(volume, number, pages, DialectDash(d)))
                  \o " (2019)"

\* The values of the external ids of the record whose type is 'doi'.
RecordDois ==
    LET items == w_json.v["external-ids"].v["external-id"].v
    IN  {items[i].v["external-id-value"] :
            i \in {k \in 1..Len(items) :
                      items[k].v["external-id-type"] = PyStr(<<"doi">>)}}

\* What a rendering has between the quotes.
QuotedTitle(text) ==
    Text(SubSeq(text, Len(w_obj.author_string) + 3, ClosingQuote(text) - 1))

\* The title of the Work is rendered with a link to url.
TitleLinked(url) ==
    LET title == Text(Fmt(w_obj.title))
    IN  /\ w_obj.doi_url # None
        /\ Text(Fmt(w_obj.doi_url)) = url
        /\ w_text["html"] # <<>> =>
               QuotedTitle(w_text["html"])
                   = "<em><a href=\"" \o url \o "\">" \o title \o "</a></em>"
        /\ w_text["latex"] # <<>> =>
               QuotedTitle(w_text["latex"])
                   = "\\href{" \o url \o "}{\\emph{" \o title \o "}}"

\* The title of the Work is rendered with the emphasis only.
TitleNotLinked ==
    LET title == Text(Fmt(w_obj.title))
    IN  /\ w_obj.doi_url = None
        /\ w_text["html"] # <<>> =>
               QuotedTitle(w_text["html"]) = "<em>" \o title \o "</em>"
        /\ w_text["latex"] # <<>> =>
               QuotedTitle(w_text["latex"]) = "\\emph{" \o title \o "}"

\* C20: when the external ids of the record have a 'doi', doi_url is
\* 'https://doi.org/' and the doi, the html title is <em> around <a href=doi_url>
\* around the title and the latex title is \href{doi_url} around \emph of the
\* title; when they have none, doi_url is None and the title has the emphasis
\* only; the ascii title is the title alone in both cases.
C20_TitleLinkedIffDoi ==
    w_obj # None =>
        /\ RecordDois # {} =>
               \E doi \in RecordDois : TitleLinked("https://doi.org/" \o Text(Fmt(doi)))
        /\ RecordDois = {} => TitleNotLinked
        /\ w_text["ascii"] # <<>> =>
               QuotedTitle(w_text["ascii"]) = Text(Fmt(w_obj.title))

C20_Witness ==
    /\ w_obj # None
    /\ RecordDois = {PyStr(<<"10.1/", "1">>)}
    /\ Text(Fmt(w_obj.doi_url)) = "https://doi.org/10.1/1"
    /\ \A d \in Dialects : w_text[d] # <<>>
    /\ QuotedTitle(w_text["html"]) = "<em><a href=\"https://doi.org/10.1/1\">T1</a></em>"
    /\ QuotedTitle(w_text["latex"]) = "\\href{https://doi.org/10.1/1}{\\emph{T1}}"
    /\ QuotedTitle(w_text["ascii"]) = "T1"

-----------------------------------------------------------------------------
(* Properties of ORCID *)

\* The last call was ORCID._load on a file that was there, not forced.
LoadedFromCache ==
    /\ last_call.op = "_load"
    /\ exists(last_call.before, last_call.file_path)
    /\ ~last_call.force_fetch

\* C13: when the cache file of a record exists and force_fetch is False,
\* ORCID._load returns what the file parses to, requests nothing from the
\* server and leaves every file as it was.
C13_CachedLoad ==
    LoadedFromCache =>
        /\ last_call.requests = <<>>
        /\ cache = last_call.before
        /\ json_load(last_call.before[last_call.file_path]).exc = ""
            => /\ last_call.raised = ""
               /\ last_call.data = json_load(last_call.before[last_call.file_path]).v

C13_Witness ==
    /\ LoadedFromCache
    /\ last_call.raised = ""
    /\ last_call.resp.kind = "response"
    /\ last_call.resp.body.kind = "json"
    /\ last_call.data # json_load(last_call.resp.body).v

\* The last call was ORCID._load on a file that was not there, or forced.
LoadedFromServer ==
    /\ last_call.op = "_load"
    /\ ~exists(last_call.before, last_call.file_path) \/ last_call.force_fetch

ConstructedFromCache ==
    /\ last_call.op = "ORCID"
    /\ exists(last_call.before, RootFile)
    /\ ~last_call.force_fetch

\* C16: when the cache file of a record exists, force_fetch is False and the
\* file does not parse, ORCID._load raises, and so does ORCID() for the
\* top-level file; nothing is requested from the server and every file is left
\* as it was.
C16_CorruptCacheFatal ==
    /\ (LoadedFromCache /\ json_load(last_call.before[last_call.file_path]).exc # "")
           => /\ last_call.raised = "JSONDecodeError"
              /\ last_call.requests = <<>>
              /\ cache = last_call.before
    /\ (ConstructedFromCache /\ json_load(last_call.before[RootFile]).exc # "")
           => /\ last_call.raised = "JSONDecodeError"
              /\ last_call.obj = None
              /\ last_call.requests = <<>>
              /\ cache = last_call.before

C16_Witness ==
    /\ LoadedFromCache
    /\ last_call.before[last_call.file_path] = EmptyFile
    /\ last_call.raised # ""
    /\ last_call.resp.kind = "response"
    /\ last_call.resp.status = 200
    /\ last_call.resp.body.kind = "json"

\* C17: when ORCID._load goes to the server and the connection fails or the
\* status of the response is not 2xx, the call raises: it returns no data.
C17_FailureIsFatal ==
    (/\ LoadedFromServer
     /\ \/ last_call.resp.kind = "failure"
        \/ last_call.resp.status \notin 200..299)
        => /\ last_call.raised # ""
           /\ last_call.data = None

\* C27: when ORCID._load goes to the server and the call raises, at the
\* request or at the parsing of the body, every file of the cache is as it was
\* before the call: the cache file is not created, emptied or rewritten.
C27_FailedFetchKeepsCache ==
    (LoadedFromServer /\ last_call.raised # "") => cache = last_call.before

\* The put-codes of the groups of a top-level record, in its order.
GroupCodes(data) ==
    LET group == data.v["activities-summary"].v["works"].v["group"].v
    IN  [i \in 1..Len(group) |-> group[i].v["work-summary"].v[1].v["put-code"].v]

\* The last call was ORCID(force_fetch=True).
ConstructedForced == last_call.op = "ORCID" /\ last_call.force_fetch

\* C15: ORCID(force_fetch=True) requests the top-level record first and
\* writes what it receives to the top-level file, yet a work whose cache file
\* is there is never requested, its file is left as it was, and the Work of
\* the list is made of what that file holds.
C15_WorksNeverForced ==
    ConstructedForced =>
        /\ last_call.requests # <<>>
        /\ Head(last_call.requests) = RootUrl
        /\ \A i \in 2..Len(last_call.requests) : last_call.requests[i] # RootUrl
        /\ (/\ last_call.web[RootUrl].kind = "response"
            /\ json_load(last_call.web[RootUrl].body).exc = "")
            => /\ exists(cache, RootFile)
               /\ cache[RootFile].kind = "json"
               /\ cache[RootFile].value = last_call.web[RootUrl].body.value
        /\ \A c \in PutCodes :
               exists(last_call.before, WorkFile(c))
                   => /\ \A i \in 1..Len(last_call.requests) :
                             last_call.requests[i] # WorkUrl(c)
                      /\ cache[WorkFile(c)] = last_call.before[WorkFile(c)]
        /\ last_call.raised = ""
            => \A i \in 1..Len(GroupCodes(last_call.obj.data)) :
                   LET c == GroupCodes(last_call.obj.data)[i]
                   IN  exists(last_call.before, WorkFile(c))
                           => \E k \in 1..Len(last_call.obj.work_list) :
                                  last_call.obj.work_list[k].json
                                      = json_load(last_call.before[WorkFile(c)]).v

C15_Witness ==
    /\ ConstructedForced
    /\ last_call.raised = ""
    /\ exists(last_call.before, RootFile)
    /\ cache[RootFile] # last_call.before[RootFile]
    /\ Len(last_call.requests) = 2
    /\ Len(last_call.obj.work_list) = 2
    /\ \E i \in 1..Len(GroupCodes(last_call.obj.data)) :
           LET c == GroupCodes(last_call.obj.data)[i]
           IN  /\ exists(last_call.before, WorkFile(c))
               /\ last_call.web[WorkUrl(c)].status = 200
               /\ json_load(last_call.web[WorkUrl(c)].body).v
                      # json_load(last_call.before[WorkFile(c)]).v

\* The last call was ORCID() and it returned.
ORCIDReturned == last_call.op = "ORCID" /\ last_call.raised = ""

PutCode(work) == work.json.v["put-code"].v

\* Where the work is first in the order of fetching.
FetchIndex(codes, work) ==
    CHOOSE i \in 1..Len(codes) :
        /\ codes[i] = PutCode(work)
        /\ \A k \in 1..(i - 1) : codes[k] # PutCode(work)

\* C18: Work.__lt__ looks at the date only, so works of one date are not less
\* than one another; after ORCID() returns, work_list holds the works of the
\* groups, none before a work of a later date, and works of one date in the
\* order of the groups of the top-level record (a work that stands in two
\* groups is twice in the list, and the same both times).
C18_SortedByDateStable ==
    ORCIDReturned =>
        LET work_list == last_call.obj.work_list
            codes == GroupCodes(last_call.obj.data)
        IN  /\ Len(work_list) = Len(codes)
            /\ \A i \in 1..Len(codes) :
                   \E k \in 1..Len(work_list) : PutCode(work_list[k]) = codes[i]
            /\ \A i, j \in 1..Len(work_list) :
                   /\ work_list[i].date = work_list[j].date
                          => ~Work_lt(work_list[i], work_list[j])
                   /\ i < j => ~DateLt(work_list[i].date, work_list[j].date)
                   /\ (i < j /\ work_list[i].date = work_list[j].date)
                          => FetchIndex(codes, work_list[i]) <= FetchIndex(codes, work_list[j])

C18_Witness ==
    /\ ORCIDReturned
    /\ Len(last_call.obj.work_list) = 2
    /\ last_call.obj.work_list[1].date = last_call.obj.work_list[2].date
    /\ last_call.obj.work_list[1].title # last_call.obj.work_list[2].title
    /\ PutCode(last_call.obj.work_list[1]) = 2

\* C28: when ORCID() returns, with force_fetch or without, the cache holds a
\* file for the top-level record and for the work of every group, and
\* ORCID(force_fetch=False) called next returns an object with the same data
\* and the same work_list, requests nothing and leaves every file as it is,
\* whatever the server would answer.
C28_SecondConstructionFromCache ==
    ORCIDReturned =>
        /\ exists(cache, RootFile)
        /\ \A i \in 1..Len(GroupCodes(last_call.obj.data)) :
               exists(cache, WorkFile(GroupCodes(last_call.obj.data)[i]))
        /\ \A web \in Webs :
               ORCID_init(ORCID_ID, FALSE, cache, web)
                   = Constructed_ORCID("", last_call.obj, cache, <<>>)

\* The first construction fetched the top-level record and two works.
C28_Witness ==
    /\ ORCIDReturned
    /\ Len(last_call.requests) = 3
    /\ Len(last_call.obj.work_list) = 2
    /\ ORCID_init(ORCID_ID, FALSE, cache,
                  [u \in DOMAIN last_call.web |-> ConnectionFailure]).raised = ""

RECURSIVE FirstLoads(_, _, _)
\* The urls of the works of the codes that have no file in fs, each one once,
\* in the order of the codes.
FirstLoads(codes, fs, seen) ==
    IF codes = <<>> THEN <<>>
    ELSE IF Head(codes) \in seen \/ exists(fs, WorkFile(Head(codes)))
    THEN FirstLoads(Tail(codes), fs, seen)
    ELSE <<WorkUrl(Head(codes))>> \o FirstLoads(Tail(codes), fs, seen \cup {Head(codes)})

IsPrefix(s, t) == Len(s) <= Len(t) /\ s = SubSeq(t, 1, Len(s))

\* The top-level record was requested by the last call.
RootRequested == last_call.force_fetch \/ ~exists(last_call.before, RootFile)

\* C29: ORCID() requests no url twice; it requests the top-level record
\* first, if at all, and then the records of the works that have no file, in
\* the order of the groups, each work once and by the first summary of its
\* group, up to the first load that raises; the files it creates or changes
\* are files of the urls it requested.
C29_OneRequestPerRecord ==
    last_call.op = "ORCID" =>
        /\ \A i, k \in 1..Len(last_call.requests) :
               last_call.requests[i] = last_call.requests[k] => i = k
        /\ \A i \in 1..Len(last_call.requests) :
               last_call.requests[i] = RootUrl => i = 1
        /\ RootRequested <=> (last_call.requests # <<>> /\ last_call.requests[1] = RootUrl)
        /\ \A g \in GroupLists :
               ORCID_load(RootUrl, RootFile, last_call.force_fetch, last_call.before,
                          last_call.web[RootUrl]).data = RootDoc(g)
                   => /\ IsPrefix(SubSeq(last_call.requests,
                                         (IF RootRequested THEN 2 ELSE 1),
                                         Len(last_call.requests)),
                                  FirstLoads(g, last_call.before, {}))
                      /\ last_call.raised = ""
                             => Len(last_call.requests)
                                    = Len(FirstLoads(g, last_call.before, {}))
                                      + (IF RootRequested THEN 1 ELSE 0)
        /\ \A c \in PutCodes :
               (\/ exists(cache, WorkFile(c)) # exists(last_call.before, WorkFile(c))
                \/ /\ exists(cache, WorkFile(c))
                   /\ cache[WorkFile(c)] # last_call.before[WorkFile(c)])
                   => \E i \in 1..Len(last_call.requests) :
                          last_call.requests[i] = WorkUrl(c)

\* The work of put-code 1 stands in two groups and is requested once.
C29_Witness ==
    /\ ORCIDReturned
    /\ GroupCodes(last_call.obj.data) = <<1, 1>>
    /\ last_call.requests = <<RootUrl, WorkUrl(1)>>
    /\ Len(last_call.obj.work_list) = 2

====
